---- MODULE Spec2Model ----
(***************************************************************************)
(* A model of the Square integration core of the Blueprint salon app:      *)
(*   - the cursor-paginated bulk fetch (fetchCustomers, fetchAllBookings), *)
(*   - the availability search and booking orchestrator                    *)
(*     (findAvailableSlots, createAppointment), in each variant of the     *)
(*     service object the repository holds,                                *)
(*   - the OAuth token handler and its best-effort background sync.        *)
(* Each part has its own specification over the shared variables; the      *)
(* variables of the other parts stay at their idle values.                 *)
(***************************************************************************)
EXTENDS Integers, Sequences, FiniteSets, TLC

\* JavaScript's undefined (an absent field).
Absent == "<absent>"

\* JavaScript truthiness of a string-or-undefined value.
Truthy(v) == v /= Absent /\ v /= ""

Last(s) == s[Len(s)]

(***************************************************************************)
(* Part 1: pagination                                                      *)
(***************************************************************************)

\* Most requests one bulk fetch may issue in the model.
MaxRequests == 4

\* Cursor values the remote may hand out.
CursorTokens == {"c1", "c2"}

\* What a request can carry: no cursor, or a cursor token.
RequestKeys == {Absent} \cup CursorTokens

\* Item arrays a page may hold (items are represented by their remote id).
ItemLists == {<<>>, <<1>>, <<2, 3>>}

\* A response of the remote: a failure status, or a page whose item array and
\* cursor may each be absent.
ErrorResponse == [ok |-> FALSE, hasItems |-> FALSE, items |-> <<>>, cursor |-> Absent]

Responses ==
  {r \in [ok : {TRUE}, hasItems : BOOLEAN, items : ItemLists,
          cursor : CursorTokens \cup {Absent, ""}] : ~r.hasItems => r.items = <<>>}
    \cup {ErrorResponse}

\* The three cursor loops of the repository.
PageFns == {"fetchCustomers", "fetchAllBookings", "fetchCustomersProxy"}

VARIABLES
  pgFn,       \* which bulk fetch is running
  server,     \* the remote resource: request key -> response
  cursor,     \* the loop's cursor variable
  allItems,   \* the loop's accumulator
  sent,       \* the cursors of the requests issued so far, in order
  pgPc,       \* "request" | "await" | "done" | "threw"
  pgResult    \* the value returned, once done (empty before)

pageVars == <<pgFn, server, cursor, allItems, sent, pgPc, pgResult>>

VARIABLES
  bkVariant,   \* which variant of the service object is deployed
  bkArgs,      \* the details of the one logical booking the caller wants
  roster,      \* the remote's team members, in the order it lists them
  bkPc,        \* position of the caller in findAvailableSlots / createAppointment
  bkResolved,  \* createAppointment's resolvedTeamMemberId
  bkError,     \* message of the error the last call threw ("" if none)
  net,         \* every request the service object has issued, in order
  bookings,    \* the bookings the remote holds
  uuidNext,    \* the next value crypto.randomUUID() yields
  attempts     \* createAppointment calls made for the logical booking

bookVars ==
  <<bkVariant, bkArgs, roster, bkPc, bkResolved, bkError, net, bookings, uuidNext, attempts>>

VARIABLES
  oaConfigured,  \* whether the store's URL and service-role key are configured
  hPc,           \* position of the token handler in the request it is serving
  hN,            \* number of the request being served (requests are numbered from 1)
  hCtx,          \* the handler's locals: access_token, merchant_id, business_name, user
  responses,     \* request number -> the response sent (status 0: none yet)
  failures,      \* request number -> the steps whose remote call failed
  persisted,     \* request number -> whether its credential row was written
  sync,          \* request number -> the background sync it started
  accounts,      \* the identity provider's users
  settings,      \* table merchant_settings
  clients,       \* table clients
  team,          \* table square_team_members
  hVariant,      \* which of the two token handlers is deployed
  callback       \* request number -> how the browser's callback page ended

oauthVars ==
  <<oaConfigured, hPc, hN, hCtx, responses, failures, persisted, sync,
    accounts, settings, clients, team, hVariant, callback>>

VARIABLES
  apiRuns,       \* run number -> a request served by the clients sync endpoint
  apiN,          \* number of requests the clients sync endpoint has received
  calls,         \* call number -> a call of resolveClientByExternalId
  callN,         \* number of calls of resolveClientByExternalId made
  localClients,  \* session -> the `clients` state of its SettingsContext
  uniqueIndex    \* whether the table clients has a unique index on external_id

clientVars == <<apiRuns, apiN, calls, callN, localClients, uniqueIndex>>

VARIABLES
  upIn,          \* a table and two batches of rows to upsert into it
  upOut,         \* the tables the upserts give, once applied
  rsIn,          \* a remote API client and the HTTP response it receives
  rsOut          \* what the client makes of the response, once delivered

VARIABLES
  ctIn,          \* a variant of fetchCatalog and the remote catalog it reads
  ctOut          \* the services fetchCatalog returns, once it has

VARIABLES
  ftIn,          \* a date, a timezone, the platform and its clock
  ftOut          \* the string formatted, the date parsed from it, the string
                 \* formatted from that date

VARIABLES
  bootVariant,   \* which callback bootstrap the page's entry script is
  storage,       \* the tab's sessionStorage
  page,          \* the page loaded in the tab, and the visits and loads so far
  exchanged      \* the codes submitted to the token-exchange endpoint, in order

bootVars == <<bootVariant, storage, page, exchanged>>

VARIABLES
  authVariant,   \* which AuthProvider is mounted
  authClient,    \* whether the module `supabase` is a client (not null)
  authState,     \* the provider's state, and the auth events delivered
  effects        \* the runs of the provider's effect, in order

authVars == <<authVariant, authClient, authState, effects>>

\* The Square proxy handler
VARIABLES
  pxIn,          \* the request the proxy handler receives
  pxOut          \* the remote request it makes and the response it gives

pureVars ==
  <<upIn, upOut, rsIn, rsOut, ctIn, ctOut, ftIn, ftOut, bootVars, authVars,
    pxIn, pxOut>>

vars == <<pageVars, bookVars, oauthVars, clientVars, pureVars>>

\* What a step of each part leaves alone.
PageFrame == UNCHANGED <<bookVars, oauthVars, clientVars, pureVars>>

BookFrame == UNCHANGED <<pageVars, oauthVars, clientVars, pureVars>>

OAuthFrame == UNCHANGED <<pageVars, bookVars, clientVars, pureVars>>

\* The clients sync endpoint and resolveClientByExternalId write the table
\* clients and read merchant_settings; they touch nothing else.
ClientsFrame ==
  UNCHANGED <<pageVars, bookVars, oaConfigured, hPc, hN, hCtx, responses, failures,
              persisted, sync, accounts, settings, team, hVariant, callback, pureVars>>

PureFrame == UNCHANGED <<pageVars, bookVars, oauthVars, clientVars>>

\* A step of one of the single-call parts leaves the other ones alone.
PureUnchangedExcept(part) ==
  /\ IF part = "upsert" THEN TRUE ELSE UNCHANGED <<upIn, upOut>>
  /\ IF part = "fetch" THEN TRUE ELSE UNCHANGED <<rsIn, rsOut>>
  /\ IF part = "catalog" THEN TRUE ELSE UNCHANGED <<ctIn, ctOut>>
  /\ IF part = "format" THEN TRUE ELSE UNCHANGED <<ftIn, ftOut>>
  /\ IF part = "boot" THEN TRUE ELSE UNCHANGED bootVars
  /\ IF part = "auth" THEN TRUE ELSE UNCHANGED authVars
  /\ IF part = "proxy" THEN TRUE ELSE UNCHANGED <<pxIn, pxOut>>

\* The Client built from a remote customer: both ids are the customer's id.
ToClient(c) == [id |-> c, externalId |-> c]

MapSeq(F(_), s) == [i \in 1..Len(s) |-> F(s[i])]

\* `data.customers || []`, `if (data.bookings) push(...)`.
PageItems(resp) == IF resp.hasItems THEN resp.items ELSE <<>>

\* A loop that asks for the first cursor token again, whatever it was given.
RequestCursorFixed(c) == IF Truthy(c) THEN "c1" ELSE Absent

\* The query string the loop builds: the cursor when it is truthy, else none.
RequestCursor(c) == IF Truthy(c) THEN c ELSE Absent

\* Stops after the first page whatever the cursor.
LoopConditionNever(c) == FALSE

\* Treats only an absent cursor as the end (an empty one continues).
LoopConditionNotAbsent(c) == c /= Absent

\* `while (cursor)`.
LoopCondition(c) == Truthy(c)

\* Puts the new page in front of the earlier ones.
AccumulatePrepend(fn, acc, resp) ==
  IF fn = "fetchCustomers"
    THEN MapSeq(ToClient, PageItems(resp)) \o acc
    ELSE PageItems(resp) \o acc

\* The loop body's accumulation: fetchCustomers translates each customer as
\* it arrives, the other two push the raw page.
Accumulate(fn, acc, resp) ==
  IF fn = "fetchCustomers"
    THEN acc \o MapSeq(ToClient, PageItems(resp))
    ELSE acc \o PageItems(resp)

\* The value returned after the loop.
Finish(fn, acc) ==
  IF fn = "fetchCustomersProxy" THEN MapSeq(ToClient, acc) ELSE acc

InitPageVars ==
  /\ pgFn \in PageFns
  /\ server \in [RequestKeys -> Responses]
  /\ cursor = Absent
  /\ allItems = <<>>
  /\ sent = <<>>
  /\ pgPc = "request"
  /\ pgResult = <<>>

IdlePage ==
  /\ pgFn = "fetchCustomers"
  /\ server = [k \in RequestKeys |-> ErrorResponse]
  /\ cursor = Absent
  /\ allItems = <<>>
  /\ sent = <<>>
  /\ pgPc = "idle"
  /\ pgResult = <<>>

\* `const data = await fetch(url...)`: the request leaves with the current cursor.
SendRequest ==
  /\ pgPc = "request"
  /\ Len(sent) < MaxRequests
  /\ sent' = Append(sent, RequestCursor(cursor))
  /\ pgPc' = "await"
  /\ UNCHANGED <<pgFn, server, cursor, allItems, pgResult>>
  /\ PageFrame

\* The response arrives: a failure status throws out of the loop; a page is
\* accumulated, its cursor read, and the loop condition evaluated.
ReceiveResponse ==
  /\ pgPc = "await"
  /\ LET resp == server[Last(sent)] IN
       IF ~resp.ok
         THEN /\ pgPc' = "threw"
              /\ UNCHANGED <<cursor, allItems, pgResult>>
         ELSE /\ allItems' = Accumulate(pgFn, allItems, resp)
              /\ cursor' = resp.cursor
              /\ IF LoopCondition(resp.cursor)
                   THEN /\ pgPc' = "request"
                        /\ UNCHANGED pgResult
                   ELSE /\ pgPc' = "done"
                        /\ pgResult' = Finish(pgFn, allItems')
  /\ UNCHANGED <<pgFn, server, sent>>
  /\ PageFrame

NextPage == SendRequest \/ ReceiveResponse

(***************************************************************************)
(* Part 2: availability search and booking                                 *)
(***************************************************************************)

\* Most createAppointment calls made for the logical booking.
MaxAttempts == 2

\* The four variants of SquareIntegrationService in the repository:
\*   "resolving"  src/services/squareIntegration.ts:111-338
\*   "strict"     src/services/squareIntegration.ts:433-613
\*   "proxy"      src/unnamed/part_000
\*   "direct"     src/unnamed/part_001
Variants == {"resolving", "strict", "proxy", "direct"}

\* The canonical services the app holds (fetchCatalog's output): variation
\* ids are unique, a version is a remote token or absent, a duration is in
\* minutes (0 when the remote gave none, in the proxy and direct catalogs).
Catalog ==
  [s1 |-> [id |-> "s1", version |-> "1700000000001", duration |-> 30],
   s2 |-> [id |-> "s2", version |-> "1700000000002", duration |-> 0],
   s3 |-> [id |-> "s3", version |-> Absent, duration |-> 45]]

\* The service lists a visit may request (each found in the catalog).
ServiceLists ==
  {<<>>, <<Catalog.s1>>, <<Catalog.s3>>, <<Catalog.s1, Catalog.s2>>,
   <<Catalog.s2, Catalog.s1>>, <<Catalog.s1, Catalog.s1>>, <<Catalog.s3, Catalog.s2>>}

\* Team-member ids a caller may pass: none, the empty id, the admin
\* sentinel, a mock id, and a remote id.
TeamMemberIds == {Absent, "", "admin", "TM-anything", "real-id-123"}

\* What the remote may hold as team: members with their bookable flag.
Rosters ==
  {<<>>,
   <<[id |-> "tmA", is_bookable |-> FALSE]>>,
   <<[id |-> "tmA", is_bookable |-> FALSE], [id |-> "tmB", is_bookable |-> TRUE],
     [id |-> "tmC", is_bookable |-> TRUE]>>,
   <<[id |-> "tmC", is_bookable |-> TRUE], [id |-> "tmB", is_bookable |-> TRUE]>>}

BookingArgs ==
  [locationId : {"", "L1"},
   customerId : {Absent, "", "C1"},
   teamMemberId : TeamMemberIds,
   services : ServiceLists,
   startAtValid : BOOLEAN]

\* No idempotency key in the request body.
NoKey == 0

StartsWith(s, p) == Len(s) >= Len(p) /\ SubSeq(s, 1, Len(p)) = p

\* Classifies only the empty id as invalid.
IsInvalidForFilterEmptyOnly(id) == ~Truthy(id)

\* `!teamMemberId || teamMemberId.startsWith('TM-') || teamMemberId === 'admin'`
IsInvalidForFilter(id) == ~Truthy(id) \/ StartsWith(id, "TM-") \/ id = "admin"

\* fetchTeam: the resolving variant lists booking profiles and keeps the
\* bookable ones; the proxy variant searches the ACTIVE team members and
\* keeps them all. Either maps each to a Stylist with the member's id.
FetchTeam(variant, members) ==
  LET Bookable(m) == m.is_bookable
      kept == IF variant \in {"resolving", "strict"}
                THEN SelectSeq(members, Bookable) ELSE members
  IN [i \in 1..Len(kept) |-> [id |-> kept[i].id]]

\* Whether the variant's createAppointment resolves an invalid team-member id
\* through the roster.
ResolvesTeamMember(variant) == variant \in {"resolving", "proxy"}

\* `Math.round(s.duration || 60)`
DurationMinutes(s) == IF s.duration = 0 THEN 60 ELSE s.duration

\* The proxy variant's serviceVersionMap: the last truthy version seen for
\* each truthy id.
RECURSIVE ServiceVersionMap(_, _)
ServiceVersionMap(services, m) ==
  IF services = <<>> THEN m
  ELSE LET s == Head(services) IN
         ServiceVersionMap(Tail(services),
           IF Truthy(s.id) /\ Truthy(s.version)
             THEN [k \in DOMAIN m \cup {s.id} |-> IF k = s.id THEN s.version ELSE m[k]]
             ELSE m)

EmptyMap == [k \in {} |-> Absent]

\* `serviceVersionMap.get(service.id) || undefined`
MapGet(m, k) == IF k \in DOMAIN m /\ Truthy(m[k]) THEN m[k] ELSE Absent

\* Every segment carries the version of the first requested service.
AppointmentSegmentsFirstVersion(variant, services, resolved) ==
  [i \in 1..Len(services) |->
     [service_variation_id |-> services[i].id,
      service_variation_version |-> services[1].version,
      team_member_id |-> resolved,
      duration_minutes |-> 0]]

\* `services.map(s => ({...}))`: one segment per requested service. Only the
\* resolving and strict variants send duration_minutes (0 stands for none).
AppointmentSegments(variant, services, resolved) ==
  [i \in 1..Len(services) |->
     [service_variation_id |-> services[i].id,
      service_variation_version |->
        IF variant = "proxy"
          THEN MapGet(ServiceVersionMap(services, EmptyMap), services[i].id)
          ELSE services[i].version,
      team_member_id |-> resolved,
      duration_minutes |->
        IF variant \in {"resolving", "strict"} THEN DurationMinutes(services[i]) ELSE 0]]

\* `idempotency_key: crypto.randomUUID()` in the resolving and strict
\* variants; the proxy and direct variants send no key.
SendsIdempotencyKey(variant) == variant \in {"resolving", "strict"}

\* The body of POST /bookings.
BookingBody(variant, args, resolved, uuid) ==
  [idempotency_key |-> IF SendsIdempotencyKey(variant) THEN uuid ELSE NoKey,
   location_id |-> args.locationId,
   start_at_valid |-> args.startAtValid,
   customer_id |-> args.customerId,
   appointment_segments |-> AppointmentSegments(variant, args.services, resolved)]

BookingRequest(variant, args, resolved, uuid) ==
  [kind |-> "POST /bookings", body |-> BookingBody(variant, args, resolved, uuid)]

TeamRequest == [kind |-> "fetchTeam", body |-> <<>>]

\* Whether findAvailableSlots leaves team_member_id_filter out of the segment
\* filter: the resolving and proxy variants do so for an id invalid for
\* filtering, the strict and direct variants always send the filter.
OmitsTeamFilter(variant, id) ==
  variant \in {"resolving", "proxy"} /\ IsInvalidForFilter(id)

\* The body of POST /bookings/availability/search.
SearchBody(variant, args) ==
  [location_id |-> args.locationId,
   window_days |-> IF variant \in {"resolving", "proxy"} THEN 30 ELSE 7,
   service_variation_id |-> "s1",
   has_team_member_id_filter |-> ~OmitsTeamFilter(variant, args.teamMemberId),
   team_member_id_filter_any |->
     IF OmitsTeamFilter(variant, args.teamMemberId) THEN <<>> ELSE <<args.teamMemberId>>]

SearchRequest(variant, args) ==
  [kind |-> "POST /bookings/availability/search", body |-> SearchBody(variant, args)]

\* The error createAppointment throws before any request, "" if none.
ValidationError(variant, args) ==
  IF variant = "direct" THEN ""
  ELSE IF ~Truthy(args.locationId) THEN "Location ID is required for booking."
  ELSE IF ~Truthy(args.customerId) THEN "Customer ID is required for booking."
  ELSE IF variant = "strict" /\ ~Truthy(args.teamMemberId)
    THEN "Team Member ID is required for booking."
  ELSE ""

\* A findAvailableSlots that neither tests the date nor throws on it.
SearchValidationErrorNone(variant, args) == ""

\* The error findAvailableSlots throws before any request, "" if none: the
\* direct variant does not test the date, and its endAt.toISOString() throws.
SearchValidationError(variant, args) ==
  IF args.startAtValid THEN ""
  ELSE IF variant = "direct" THEN "RangeError: Invalid time value"
  ELSE "Invalid start time passed to Square."

NoStaffError == "No bookable team members found in Square to assign this appointment to."

RemoteError == "HTTP Error"

\* The remote's handling of a booking request: a request whose idempotency
\* key it has seen creates nothing, any other creates a booking.
ServerAccept(held, body) ==
  IF body.idempotency_key /= NoKey
     /\ \E i \in 1..Len(held) : held[i].idempotency_key = body.idempotency_key
    THEN held
    ELSE Append(held, body)

InitBookVars ==
  /\ bkVariant \in Variants
  /\ bkArgs \in BookingArgs
  /\ roster \in Rosters
  /\ bkPc = "idle"
  /\ bkResolved = Absent
  /\ bkError = ""
  /\ net = <<>>
  /\ bookings = <<>>
  /\ uuidNext = 1
  /\ attempts = 0

IdleBook ==
  /\ bkVariant = "resolving"
  /\ bkArgs = [locationId |-> "", customerId |-> "", teamMemberId |-> "",
               services |-> <<>>, startAtValid |-> FALSE]
  /\ roster = <<>>
  /\ bkPc = "off"
  /\ bkResolved = Absent
  /\ bkError = ""
  /\ net = <<>>
  /\ bookings = <<>>
  /\ uuidNext = 1
  /\ attempts = 0

\* findAvailableSlots is called: it throws on an unparseable start time, else
\* posts the search.
CallFindAvailableSlots ==
  /\ bkPc = "idle"
  /\ IF SearchValidationError(bkVariant, bkArgs) /= ""
       THEN /\ bkError' = SearchValidationError(bkVariant, bkArgs)
            /\ bkPc' = "searchThrew"
            /\ UNCHANGED net
       ELSE /\ net' = Append(net, SearchRequest(bkVariant, bkArgs))
            /\ bkPc' = "awaitSearch"
            /\ UNCHANGED bkError
  /\ UNCHANGED <<bkVariant, bkArgs, roster, bkResolved, bookings, uuidNext, attempts>>
  /\ BookFrame

\* The search answers: slots, or a failure status that fetchFromSquare throws.
SearchResponse ==
  /\ bkPc = "awaitSearch"
  /\ \E ok \in BOOLEAN :
       IF ok THEN bkPc' = "searched" /\ UNCHANGED bkError
             ELSE bkPc' = "searchThrew" /\ bkError' = RemoteError
  /\ UNCHANGED <<bkVariant, bkArgs, roster, bkResolved, net, bookings, uuidNext, attempts>>
  /\ BookFrame

\* createAppointment is called (a first time, or again after a failure) with
\* the details of the logical booking: validation, then either the roster
\* fetch or the booking request with a fresh idempotency key.
CallCreateAppointment ==
  /\ bkPc \in {"idle", "searched", "threw"}
  /\ attempts < MaxAttempts
  /\ attempts' = attempts + 1
  /\ IF ValidationError(bkVariant, bkArgs) /= ""
       THEN /\ bkError' = ValidationError(bkVariant, bkArgs)
            /\ bkPc' = "threw"
            /\ bkResolved' = Absent
            /\ UNCHANGED <<net, uuidNext>>
       ELSE IF ResolvesTeamMember(bkVariant) /\ IsInvalidForFilter(bkArgs.teamMemberId)
         THEN /\ net' = Append(net, TeamRequest)
              /\ bkPc' = "awaitTeam"
              /\ bkResolved' = bkArgs.teamMemberId
              /\ bkError' = ""
              /\ UNCHANGED uuidNext
         ELSE /\ net' = Append(net,
                   BookingRequest(bkVariant, bkArgs, bkArgs.teamMemberId, uuidNext))
              /\ uuidNext' = uuidNext + 1
              /\ bkPc' = "awaitBooking"
              /\ bkResolved' = bkArgs.teamMemberId
              /\ bkError' = ""
  /\ UNCHANGED <<bkVariant, bkArgs, roster, bookings>>
  /\ BookFrame

\* The roster arrives (or the request fails): no member throws, otherwise the
\* first member is the resolved id and the booking request leaves.
TeamResponse ==
  /\ bkPc = "awaitTeam"
  /\ \E ok \in BOOLEAN :
       IF ~ok
         THEN /\ bkPc' = "threw"
              /\ bkError' = RemoteError
              /\ UNCHANGED <<bkResolved, net, uuidNext>>
         ELSE LET teamMembers == FetchTeam(bkVariant, roster) IN
           IF Len(teamMembers) = 0
             THEN /\ bkPc' = "threw"
                  /\ bkError' = NoStaffError
                  /\ UNCHANGED <<bkResolved, net, uuidNext>>
             ELSE /\ bkResolved' = teamMembers[1].id
                  /\ net' = Append(net,
                       BookingRequest(bkVariant, bkArgs, teamMembers[1].id, uuidNext))
                  /\ uuidNext' = uuidNext + 1
                  /\ bkPc' = "awaitBooking"
                  /\ UNCHANGED bkError
  /\ UNCHANGED <<bkVariant, bkArgs, roster, bookings, attempts>>
  /\ BookFrame

\* The booking request's fate: the remote accepts it and the caller gets the
\* booking; the remote accepts it and the response is lost (fetch rejects);
\* or the remote rejects it.
BookingResponse ==
  /\ bkPc = "awaitBooking"
  /\ \E fate \in {"accepted", "acceptedResponseLost", "rejected"} :
       /\ bookings' = IF fate = "rejected" THEN bookings
                      ELSE ServerAccept(bookings, Last(net).body)
       /\ IF fate = "accepted"
            THEN bkPc' = "returned" /\ UNCHANGED bkError
            ELSE bkPc' = "threw" /\ bkError' = RemoteError
  /\ UNCHANGED <<bkVariant, bkArgs, roster, bkResolved, net, uuidNext, attempts>>
  /\ BookFrame

NextBook ==
  \/ CallFindAvailableSlots
  \/ SearchResponse
  \/ CallCreateAppointment
  \/ TeamResponse
  \/ BookingResponse

(***************************************************************************)
(* Part 3: the OAuth token handler (src/api/square/oauth/token.ts:231-365) *)
(* and the background sync it starts (130-229)                             *)
(***************************************************************************)

\* Most token requests the handler serves in the model.
MaxCompletions == 2

Completions == 1..MaxCompletions

Merchants == {"m1", "m2"}

\* The access token the remote issues in answer to the n-th exchange.
AccessToken(n) == IF n = 1 THEN "token-1" ELSE IF n = 2 THEN "token-2" ELSE "token-3"

\* An email that differs from one completion to the next.
EmailOfCompletion(merchant) == merchant \o "+" \o AccessToken(hN) \o "@square-oauth.blueprint"

\* `${merchant_id}@square-oauth.blueprint`
EmailOf(merchant) == merchant \o "@square-oauth.blueprint"

\* What GET /v2/customers may answer with: customers with unique ids.
CustomerLists ==
  {<<>>,
   <<[id |-> "cu1", given_name |-> "Ann", family_name |-> "Lee"]>>,
   <<[id |-> "cu1", given_name |-> "Anna", family_name |-> Absent],
     [id |-> "cu2", given_name |-> Absent, family_name |-> Absent]>>}

\* What POST /v2/team-members/search may answer with.
TeamLists ==
  {<<>>,
   <<[id |-> "tm1", given_name |-> "Bo", family_name |-> "Diaz", is_owner |-> TRUE]>>}

NoUser == 0

EmptyCtx ==
  [access_token |-> "", merchant_id |-> "", business_name |-> "", user |-> NoUser,
   signInError |-> ""]

NoResponse == [status |-> 0, message |-> "", merchant_id |-> "", business_name |-> "",
               access_token |-> "", email |-> ""]

\* The two handlers of src/api/square/oauth/token.ts: the one that only
\* exchanges the code and leaves identity resolution to the callback page
\* (3-102), and the one that does everything itself (231-365).
HandlerVariants == {"exchangeOnly", "full"}

NoCallback == [result |-> "", user |-> NoUser]

\* `res.status(code).json({ message })`
ErrorReply(code, msg) == [NoResponse EXCEPT !.status = code, !.message = msg]

\* `res.status(200).json({ merchant_id, business_name, access_token })`
OkReply(ctx) ==
  [status |-> 200, message |-> "", merchant_id |-> ctx.merchant_id,
   business_name |-> ctx.business_name, access_token |-> ctx.access_token, email |-> ""]

\* `[c.given_name, c.family_name].filter(Boolean).join(' ') || fallback`
JoinName(given, family, fallback) ==
  IF Truthy(given) /\ Truthy(family) THEN given \o " " \o family
  ELSE IF Truthy(given) THEN given
  ELSE IF Truthy(family) THEN family
  ELSE fallback

ClientRow(c, userId) ==
  [external_id |-> c.id, name |-> JoinName(c.given_name, c.family_name, "Client"),
   supabase_user_id |-> userId]

TeamRow(m, merchant) ==
  [square_team_member_id |-> m.id, name |-> JoinName(m.given_name, m.family_name, "Team"),
   role |-> IF m.is_owner THEN "Owner" ELSE "Team Member", merchant_id |-> merchant]

SettingsRow(ctx) ==
  [supabase_user_id |-> ctx.user, square_merchant_id |-> ctx.merchant_id,
   square_access_token |-> ctx.access_token]

\* A plain insert: the row is added whatever the table holds.
UpsertRowInsert(table, row, key) == Append(table, row)

\* An upsert that ignores duplicates: a held row with the same key is kept.
UpsertRowIgnoreDuplicates(table, row, key) ==
  IF \E i \in 1..Len(table) : table[i][key] = row[key]
    THEN table
    ELSE Append(table, row)

\* One row upserted with `onConflict: key`: a held row with the same key is
\* replaced in place, otherwise the row is added.
UpsertRow(table, row, key) ==
  IF \E i \in 1..Len(table) : table[i][key] = row[key]
    THEN [i \in 1..Len(table) |-> IF table[i][key] = row[key] THEN row ELSE table[i]]
    ELSE Append(table, row)

RECURSIVE Upsert(_, _, _)
Upsert(table, rows, key) ==
  IF rows = <<>> THEN table
  ELSE Upsert(UpsertRow(table, Head(rows), key), Tail(rows), key)

NoSync ==
  [pc |-> "notStarted", custAttempted |-> FALSE, teamAttempted |-> FALSE,
   rows |-> <<>>, userId |-> NoUser, merchantId |-> "",
   custFailed |-> FALSE]

\* The sync ran to its end before control came back to the handler.
SyncAwaitedToEnd(configured, ctx) ==
  [NoSync EXCEPT !.pc = "done", !.custAttempted = TRUE, !.teamAttempted = TRUE,
                 !.userId = ctx.user, !.merchantId = ctx.merchant_id,
                 !.custFailed = TRUE]

\* `void syncSquareDataBestEffort({...})`: the async function runs up to its
\* first await (the customers request) and the handler goes on; were
\* createClient to throw, the outer catch ends the sync at once.
SyncAtFirstAwait(configured, ctx) ==
  IF configured
    THEN [NoSync EXCEPT !.pc = "awaitCustomers", !.custAttempted = TRUE,
                        !.userId = ctx.user, !.merchantId = ctx.merchant_id]
    ELSE [NoSync EXCEPT !.pc = "done"]

\* A failed merchant lookup is replaced by the fallback name and the flow goes on.
MerchantLookupFailureFallsBack == FALSE

\* `await squareApiFetch(.../v2/merchants/...)` is inside the handler's try
\* with no catch of its own: a failure is fatal to the request.
MerchantLookupFailureIsFatal == TRUE

\* A failure of the clients sync ends the whole sync.
AfterClientsFailureDone == "done"

\* The clients block has its own try/catch: whatever happens in it, the
\* team block runs next.
AfterClientsFailure == "team"

InitOAuthVars ==
  /\ hVariant = "full"
  /\ callback = [n \in Completions |-> NoCallback]
  /\ oaConfigured \in BOOLEAN
  /\ hPc = "idle"
  /\ hN = 0
  /\ hCtx = EmptyCtx
  /\ responses = [n \in Completions |-> NoResponse]
  /\ failures = [n \in Completions |-> {}]
  /\ persisted = [n \in Completions |-> FALSE]
  /\ sync = [n \in Completions |-> NoSync]
  /\ accounts = <<>>
  /\ settings = <<>>
  /\ clients = <<>>
  /\ team = <<>>

IdleOAuth ==
  /\ hVariant = "full"
  /\ callback = [n \in Completions |-> NoCallback]
  /\ oaConfigured = FALSE
  /\ hPc = "off"
  /\ hN = 0
  /\ hCtx = EmptyCtx
  /\ responses = [n \in Completions |-> NoResponse]
  /\ failures = [n \in Completions |-> {}]
  /\ persisted = [n \in Completions |-> FALSE]
  /\ sync = [n \in Completions |-> NoSync]
  /\ accounts = <<>>
  /\ settings = <<>>
  /\ clients = <<>>
  /\ team = <<>>

\* The handler answers the request it is serving and is free again.
Reply(n, resp) ==
  /\ responses' = [responses EXCEPT ![n] = resp]
  /\ hPc' = "idle"
  /\ hCtx' = EmptyCtx

\* A request arrives: wrong method 405, no code 400, else the code is posted
\* to the remote token endpoint.
ReceiveRequest ==
  /\ hPc = "idle"
  /\ hN < MaxCompletions
  /\ hN' = hN + 1
  /\ hCtx' = EmptyCtx
  /\ \E method \in {"POST", "GET"}, hasCode \in BOOLEAN :
       IF method /= "POST" THEN Reply(hN + 1, ErrorReply(405, "Method not allowed"))
       ELSE IF ~hasCode THEN Reply(hN + 1, ErrorReply(400, "Missing OAuth code."))
       ELSE hPc' = "exchanging" /\ UNCHANGED responses
  /\ UNCHANGED <<oaConfigured, failures, persisted, sync, accounts, settings, clients, team,
                 hVariant, callback>>
  /\ OAuthFrame

\* The token endpoint answers: tokens for some merchant, a rejection (the
\* handler passes the remote status on), or no usable answer (fetch or
\* json() throws, status 500). On success the merchant lookup leaves.
ExchangeResponse ==
  /\ hPc = "exchanging"
  /\ \E outcome \in {"ok", "rejected", "threw"}, m \in Merchants :
       IF outcome = "ok"
         THEN /\ hCtx' = [hCtx EXCEPT !.access_token = AccessToken(hN), !.merchant_id = m]
              /\ hPc' = "merchantLookup"
              /\ UNCHANGED <<responses, failures>>
         ELSE /\ failures' = [failures EXCEPT ![hN] = @ \cup {"exchange"}]
              /\ Reply(hN, IF outcome = "rejected"
                             THEN ErrorReply(401, "Failed to exchange Square OAuth token.")
                             ELSE ErrorReply(500, "fetch failed"))
  /\ UNCHANGED <<oaConfigured, hN, persisted, sync, accounts, settings, clients, team,
                 hVariant, callback>>
  /\ OAuthFrame

\* `res.status(200).json({ ...tokenData, email, business_name, merchant_id })`
ExchangeOnlyReply(ctx) ==
  [status |-> 200, message |-> "", merchant_id |-> ctx.merchant_id,
   business_name |-> ctx.business_name, access_token |-> ctx.access_token,
   email |-> EmailOf(ctx.merchant_id)]

\* The callback page ends: it redirects to the dashboard or shows an error.
CallbackEnds(n, result, user) ==
  /\ callback' = [callback EXCEPT ![n] = [result |-> result, user |-> user]]
  /\ hPc' = "idle"
  /\ hCtx' = EmptyCtx

\* The merchant lookup answers. In the full handler a failure (network,
\* failure status, undecodable body) throws out of squareApiFetch; otherwise
\* the business name is the merchant's or 'Admin', createClient throws when
\* the store is not configured, else the sign-in leaves. The exchange-only
\* handler keeps 'Admin' on any failure and replies 200; the callback page
\* then stops if it has no store client, else its sign-in leaves.
MerchantResponse ==
  /\ hPc = "merchantLookup"
  /\ \E outcome \in {"named", "unnamed", "failed"} :
       LET name == IF outcome = "named" THEN "Salon Uno" ELSE "Admin"
           ctx == [hCtx EXCEPT !.business_name = name]
           fatal == outcome = "failed" /\ hVariant = "full" /\ MerchantLookupFailureIsFatal
       IN
       /\ failures' = [failures EXCEPT ![hN] =
            @ \cup (IF outcome = "failed" THEN {"merchant"} ELSE {})
              \cup (IF ~fatal /\ ~oaConfigured THEN {"config"} ELSE {})]
       /\ IF hVariant = "full"
            THEN /\ IF fatal
                      THEN Reply(hN, ErrorReply(500, "Square API request failed"))
                    ELSE IF ~oaConfigured
                      THEN Reply(hN, ErrorReply(500, "supabaseUrl is required."))
                    ELSE /\ hCtx' = ctx
                         /\ hPc' = "signIn"
                         /\ UNCHANGED responses
                 /\ UNCHANGED callback
            ELSE /\ responses' = [responses EXCEPT ![hN] = ExchangeOnlyReply(ctx)]
                 /\ IF ~oaConfigured
                      THEN CallbackEnds(hN, "error", NoUser)
                      ELSE /\ hCtx' = ctx
                           /\ hPc' = "signIn"
                           /\ UNCHANGED callback
  /\ UNCHANGED <<oaConfigured, hN, persisted, sync, accounts, settings, clients, team,
                 hVariant>>
  /\ OAuthFrame

AccountOf(email) ==
  CHOOSE i \in 1..Len(accounts) : accounts[i].email = email

HasAccount(email) == \E i \in 1..Len(accounts) : accounts[i].email = email

\* Whether a failed sign-in is followed by a sign-up: the full handler signs
\* up on any error (`if (error)`), the callback page only when the message
\* includes 'Invalid login credentials'.
SignsUpAfter(variant, signInError) ==
  variant = "full" \/ signInError = "invalid"

\* signInWithPassword answers: the user of the account, 'Invalid login
\* credentials' (there is no such account), or another error. After a
\* success the full handler upserts the credential row and the callback page
\* redirects; after an error a sign-up leaves or the flow ends.
SignInResponse ==
  /\ hPc = "signIn"
  /\ \E outcome \in {"ok", "invalid", "other"} :
       /\ outcome = "ok" => HasAccount(EmailOf(hCtx.merchant_id))
       /\ outcome = "invalid" => ~HasAccount(EmailOf(hCtx.merchant_id))
       /\ IF outcome = "ok"
            THEN LET user == AccountOf(EmailOf(hCtx.merchant_id)) IN
                 IF hVariant = "full"
                   THEN /\ hCtx' = [hCtx EXCEPT !.user = user]
                        /\ hPc' = "persist"
                        /\ UNCHANGED callback
                   ELSE CallbackEnds(hN, "redirected", user)
            ELSE IF SignsUpAfter(hVariant, outcome)
              THEN /\ hPc' = "signUp"
                   /\ hCtx' = [hCtx EXCEPT !.signInError = outcome]
                   /\ UNCHANGED callback
              ELSE CallbackEnds(hN, "error", NoUser)
  /\ UNCHANGED <<oaConfigured, hN, responses, failures, persisted, sync, accounts,
                 settings, clients, team, hVariant>>
  /\ OAuthFrame

\* signUp answers: a new account (only when the email is free), an error, or
\* (full handler) neither error nor user. The full handler throws anything
\* but a user (status 500); the callback page shows the error.
SignUpResponse ==
  /\ hPc = "signUp"
  /\ \E outcome \in {"created", "error", "noUser"} :
       /\ outcome = "created" => ~HasAccount(EmailOf(hCtx.merchant_id))
       /\ outcome = "noUser" => hVariant = "full"
       /\ IF outcome = "created"
            THEN /\ accounts' = Append(accounts,
                      [email |-> EmailOf(hCtx.merchant_id), password |-> hCtx.merchant_id,
                       merchant_id |-> hCtx.merchant_id,
                       business_name |-> hCtx.business_name])
                 /\ IF hVariant = "full"
                      THEN /\ hCtx' = [hCtx EXCEPT !.user = Len(accounts) + 1]
                           /\ hPc' = "persist"
                           /\ UNCHANGED callback
                      ELSE CallbackEnds(hN, "redirected", Len(accounts) + 1)
                 /\ UNCHANGED <<responses, failures>>
            ELSE /\ failures' = [failures EXCEPT ![hN] = @ \cup {"identity"}]
                 /\ IF hVariant = "full"
                      THEN /\ Reply(hN, ErrorReply(500,
                                      IF outcome = "error" THEN "User already registered"
                                                           ELSE "Supabase auth failed"))
                           /\ UNCHANGED callback
                      ELSE /\ CallbackEnds(hN, "error", NoUser)
                           /\ UNCHANGED responses
                 /\ UNCHANGED accounts
  /\ UNCHANGED <<oaConfigured, hN, persisted, sync, settings, clients, team, hVariant>>
  /\ OAuthFrame

\* The credential upsert answers (its result is not looked at); the handler
\* then starts the sync without awaiting it and replies 200.
PersistResult ==
  /\ hPc = "persist"
  /\ \E outcome \in {"written", "error"} :
       /\ IF outcome = "written"
            THEN /\ settings' = UpsertRow(settings, SettingsRow(hCtx), "supabase_user_id")
                 /\ persisted' = [persisted EXCEPT ![hN] = TRUE]
                 /\ UNCHANGED failures
            ELSE /\ failures' = [failures EXCEPT ![hN] = @ \cup {"persist"}]
                 /\ UNCHANGED <<settings, persisted>>
       /\ sync' = [sync EXCEPT ![hN] = SyncAtFirstAwait(oaConfigured, hCtx)]
       /\ Reply(hN, OkReply(hCtx))
  /\ UNCHANGED <<oaConfigured, hN, accounts, clients, team, hVariant, callback>>
  /\ OAuthFrame

\* The sync goes from the clients block to the team block: the team search
\* leaves.
ToTeamBlock(s) == [s EXCEPT !.pc = "awaitTeam", !.teamAttempted = TRUE, !.rows = <<>>]

\* The sync leaves the clients block after a failure in it.
LeaveClientsBlockAfterFailure(s) ==
  IF AfterClientsFailure = "team"
    THEN [ToTeamBlock(s) EXCEPT !.custFailed = TRUE]
    ELSE [s EXCEPT !.pc = "done", !.rows = <<>>, !.custFailed = TRUE]

\* The customers request of sync n answers: a failure is caught and logged;
\* no customers, nothing to upsert; else the rows are upserted.
CustomersResponse(n) ==
  /\ sync[n].pc = "awaitCustomers"
  /\ \/ sync' = [sync EXCEPT ![n] = LeaveClientsBlockAfterFailure(@)]
     \/ \E customers \in CustomerLists :
          sync' = [sync EXCEPT ![n] =
            IF customers = <<>>
              THEN ToTeamBlock(@)
              ELSE [@ EXCEPT !.pc = "awaitClientsUpsert",
                             !.rows = [i \in 1..Len(customers) |->
                                         ClientRow(customers[i], sync[n].userId)]]]
  /\ UNCHANGED <<oaConfigured, hPc, hN, hCtx, responses, failures, persisted, accounts,
                 settings, clients, team, hVariant, callback>>
  /\ OAuthFrame

\* The clients upsert of sync n answers: written, or an error that is logged.
ClientsUpsertResult(n) ==
  /\ sync[n].pc = "awaitClientsUpsert"
  /\ \/ /\ clients' = Upsert(clients, sync[n].rows, "external_id")
        /\ sync' = [sync EXCEPT ![n] = ToTeamBlock(@)]
     \/ /\ UNCHANGED clients
        /\ sync' = [sync EXCEPT ![n] = LeaveClientsBlockAfterFailure(@)]
  /\ UNCHANGED <<oaConfigured, hPc, hN, hCtx, responses, failures, persisted, accounts,
                 settings, team, hVariant, callback>>
  /\ OAuthFrame

\* The team search of sync n answers.
TeamMembersResponse(n) ==
  /\ sync[n].pc = "awaitTeam"
  /\ \/ sync' = [sync EXCEPT ![n] = [@ EXCEPT !.pc = "done"]]
     \/ \E members \in TeamLists :
          sync' = [sync EXCEPT ![n] =
            IF members = <<>>
              THEN [@ EXCEPT !.pc = "done"]
              ELSE [@ EXCEPT !.pc = "awaitTeamUpsert",
                             !.rows = [i \in 1..Len(members) |->
                                         TeamRow(members[i], sync[n].merchantId)]]]
  /\ UNCHANGED <<oaConfigured, hPc, hN, hCtx, responses, failures, persisted, accounts,
                 settings, clients, team, hVariant, callback>>
  /\ OAuthFrame

\* The team upsert of sync n answers.
TeamUpsertResult(n) ==
  /\ sync[n].pc = "awaitTeamUpsert"
  /\ \/ /\ team' = Upsert(team, sync[n].rows, "square_team_member_id")
        /\ sync' = [sync EXCEPT ![n] = [@ EXCEPT !.pc = "done", !.rows = <<>>]]
     \/ /\ UNCHANGED team
        /\ sync' = [sync EXCEPT ![n] = [@ EXCEPT !.pc = "done", !.rows = <<>>]]
  /\ UNCHANGED <<oaConfigured, hPc, hN, hCtx, responses, failures, persisted, accounts,
                 settings, clients, hVariant, callback>>
  /\ OAuthFrame

NextOAuth ==
  \/ ReceiveRequest
  \/ ExchangeResponse
  \/ MerchantResponse
  \/ SignInResponse
  \/ SignUpResponse
  \/ PersistResult
  \/ \E n \in Completions : CustomersResponse(n)
  \/ \E n \in Completions : ClientsUpsertResult(n)
  \/ \E n \in Completions : TeamMembersResponse(n)
  \/ \E n \in Completions : TeamUpsertResult(n)

(***************************************************************************)
(* Part 4: the writers of the table clients outside the OAuth flow: the    *)
(* clients sync endpoint (src/api/square/clients.ts) and                   *)
(* resolveClientByExternalId (src/contexts/SettingsContext.tsx:313-391)    *)
(***************************************************************************)

\* Most requests the clients sync endpoint serves in the model.
MaxSyncRuns == 2

SyncRuns == 1..MaxSyncRuns

\* The tenants whose bearer tokens the identity provider knows.
Tenants == {1, 2}

\* The Authorization header: none, a token the provider does not know, or a
\* tenant's.
Bearers == {"none", "unknown", "tenant-1", "tenant-2"}

\* `supabaseAdmin.auth.getUser(bearer)`: the user the token belongs to.
BearerUser(bearer) ==
  IF bearer = "tenant-1" THEN 1 ELSE IF bearer = "tenant-2" THEN 2 ELSE NoUser

NoRun == [pc |-> "notStarted", hasToken |-> FALSE, user |-> NoUser, rows |-> <<>>,
          status |-> 0, inserted |-> 0]

\* The credential row an earlier OAuth completion left for tenant 1.
StoredSettings ==
  <<[supabase_user_id |-> 1, square_merchant_id |-> "m1", square_access_token |-> "token-1"]>>

\* `.from('merchant_settings').select('square_access_token')
\*  .eq('supabase_user_id', id).maybeSingle()` found a token.
HasStoredToken(userId) ==
  \E i \in 1..Len(settings) :
    settings[i].supabase_user_id = userId /\ Truthy(settings[i].square_access_token)

\* The endpoint answers run r.
ApiReply(r, code, n) ==
  apiRuns' = [apiRuns EXCEPT ![r] = [@ EXCEPT !.pc = "done", !.status = code,
                                                !.inserted = n, !.rows = <<>>]]

\* A request arrives with or without the token header, and with no bearer
\* token, an unknown one, or a tenant's. Without store configuration it is
\* answered 500; without a bearer token nobody is identified and it is
\* answered 401; else getUser leaves.
ApiReceive ==
  /\ apiN < MaxSyncRuns
  /\ apiN' = apiN + 1
  /\ \E hasToken \in BOOLEAN, bearer \in Bearers :
       IF ~oaConfigured THEN ApiReply(apiN + 1, 500, 0)
       ELSE IF bearer = "none" THEN ApiReply(apiN + 1, 401, 0)
       ELSE apiRuns' = [apiRuns EXCEPT ![apiN + 1] =
                          [NoRun EXCEPT !.pc = "getUser", !.hasToken = hasToken,
                                        !.user = BearerUser(bearer)]]
  /\ UNCHANGED <<clients, calls, callN, localClients, uniqueIndex>>
  /\ ClientsFrame

\* getUser answers (and, when the header carried no token, the stored one is
\* looked up): without a token or a user the answer is 401, else the
\* customers request leaves.
ApiGetUserResult(r) ==
  /\ apiRuns[r].pc = "getUser"
  /\ LET run == apiRuns[r]
         token == run.hasToken \/ (run.user /= NoUser /\ HasStoredToken(run.user))
     IN IF ~token \/ run.user = NoUser
          THEN ApiReply(r, 401, 0)
          ELSE apiRuns' = [apiRuns EXCEPT ![r] = [@ EXCEPT !.pc = "customers"]]
  /\ UNCHANGED <<clients, apiN, calls, callN, localClients, uniqueIndex>>
  /\ ClientsFrame

\* The customers request answers: no usable answer (500), a failure status
\* passed on, or customers; their rows are upserted, or with none the answer
\* is 200 at once.
ApiCustomersResponse(r) ==
  /\ apiRuns[r].pc = "customers"
  /\ \/ ApiReply(r, 500, 0)
     \/ ApiReply(r, 401, 0)
     \/ \E customers \in CustomerLists :
          IF customers = <<>>
            THEN ApiReply(r, 200, 0)
            ELSE apiRuns' = [apiRuns EXCEPT ![r] =
                   [@ EXCEPT !.pc = "upsert",
                             !.rows = [i \in 1..Len(customers) |->
                                         ClientRow(customers[i], apiRuns[r].user)]]]
  /\ UNCHANGED <<clients, apiN, calls, callN, localClients, uniqueIndex>>
  /\ ClientsFrame

\* The upsert answers: applied (200 with the number of rows) or an error (500).
ApiUpsertResult(r) ==
  /\ apiRuns[r].pc = "upsert"
  /\ \/ /\ clients' = Upsert(clients, apiRuns[r].rows, "external_id")
        /\ ApiReply(r, 200, Len(apiRuns[r].rows))
     \/ /\ UNCHANGED clients
        /\ ApiReply(r, 500, 0)
  /\ UNCHANGED <<apiN, calls, callN, localClients, uniqueIndex>>
  /\ ClientsFrame

NextClientsApi ==
  \/ ApiReceive
  \/ \E r \in SyncRuns : ApiGetUserResult(r)
  \/ \E r \in SyncRuns : ApiCustomersResponse(r)
  \/ \E r \in SyncRuns : ApiUpsertResult(r)

\* The rows of the table that carry the external id.
ClientsHolding(table, externalId) ==
  {i \in 1..Len(table) : table[i].external_id = externalId}

\* Most calls of resolveClientByExternalId in the model.
MaxCalls == 2

Calls == 1..MaxCalls

\* Browser sessions of the one tenant that is signed in.
Sessions == {"s1", "s2"}

ExternalIds == {"cu1", "cu2"}

\* The tenant the sessions are signed in as.
SessionUser == 1

NoClient == [id |-> 0, external_id |-> "", name |-> "", supabase_user_id |-> NoUser]

NoCall == [pc |-> "notStarted", session |-> "", externalId |-> "", outcome |-> "",
           result |-> NoClient]

\* clientDetails.name for the remote customer.
DetailsName(externalId) == IF externalId = "cu1" THEN "Ann Lee" ELSE "Client"

\* The call ends: it returns a client or throws.
CallEnds(c, outcome, client) ==
  calls' = [calls EXCEPT ![c] = [@ EXCEPT !.pc = "done", !.outcome = outcome,
                                          !.result = client]]

\* `setClients((prev) => [...prev.filter((c) => c.id !== client.id), client])`
Remember(session, client) ==
  localClients' = [localClients EXCEPT ![session] =
    Append(SelectSeq(@, LAMBDA c : c.id /= client.id), client)]

\* A session calls resolveClientByExternalId: without a store client it
\* throws; else getUser leaves.
ResolveStart ==
  /\ callN < MaxCalls
  /\ callN' = callN + 1
  /\ \E session \in Sessions, externalId \in ExternalIds :
       LET call == [NoCall EXCEPT !.session = session, !.externalId = externalId] IN
       calls' = [calls EXCEPT ![callN + 1] =
                   IF oaConfigured
                     THEN [call EXCEPT !.pc = "getUser"]
                     ELSE [call EXCEPT !.pc = "done", !.outcome = "notInitialized"]]
  /\ UNCHANGED <<clients, apiRuns, apiN, localClients, uniqueIndex>>
  /\ ClientsFrame

\* getUser answers: without a user the call throws; a client of the session's
\* state with the external id is returned; else the select leaves.
ResolveGetUser(c) ==
  /\ calls[c].pc = "getUser"
  /\ \/ /\ CallEnds(c, "notAuthenticated", NoClient)
     \/ LET held == localClients[calls[c].session]
            found == {i \in 1..Len(held) : held[i].external_id = calls[c].externalId}
        IN IF found /= {}
             THEN CallEnds(c, "returned", held[CHOOSE i \in found : \A j \in found : i <= j])
             ELSE calls' = [calls EXCEPT ![c] = [@ EXCEPT !.pc = "select"]]
  /\ UNCHANGED <<clients, apiRuns, apiN, callN, localClients, uniqueIndex>>
  /\ ClientsFrame

\* The rows `.eq('supabase_user_id', user.id).eq('external_id', externalId)`
\* selects.
Selected(externalId) ==
  {i \in 1..Len(clients) :
     clients[i].external_id = externalId /\ clients[i].supabase_user_id = SessionUser}

\* The select answers: an error (a failure, or maybeSingle finding several
\* rows) is logged and taken as no row; one row is remembered and returned;
\* with no row the insert leaves.
ResolveSelect(c) ==
  /\ calls[c].pc = "select"
  /\ LET rows == Selected(calls[c].externalId) IN
     \/ /\ calls' = [calls EXCEPT ![c] = [@ EXCEPT !.pc = "insert"]]
        /\ UNCHANGED localClients
     \/ /\ Cardinality(rows) = 1
        /\ LET row == clients[CHOOSE i \in rows : TRUE] IN
           /\ Remember(calls[c].session, row)
           /\ CallEnds(c, "returned", row)
  /\ UNCHANGED <<clients, apiRuns, apiN, callN, uniqueIndex>>
  /\ ClientsFrame

\* The insert answers: the new row, which is remembered and returned, or an
\* error, which is thrown. With a unique index on external_id the store
\* refuses a second row for the external id.
ResolveInsert(c) ==
  /\ calls[c].pc = "insert"
  /\ LET taken == ClientsHolding(clients, calls[c].externalId) /= {}
         row == [id |-> Len(clients) + 1, external_id |-> calls[c].externalId,
                 name |-> DetailsName(calls[c].externalId),
                 supabase_user_id |-> SessionUser]
     IN \/ /\ uniqueIndex /\ taken
           /\ CallEnds(c, "duplicateKey", NoClient)
           /\ UNCHANGED <<clients, localClients>>
        \/ /\ CallEnds(c, "insertFailed", NoClient)
           /\ UNCHANGED <<clients, localClients>>
        \/ /\ ~(uniqueIndex /\ taken)
           /\ clients' = Append(clients, row)
           /\ Remember(calls[c].session, row)
           /\ CallEnds(c, "returned", row)
  /\ UNCHANGED <<apiRuns, apiN, callN, uniqueIndex>>
  /\ ClientsFrame

NextResolve ==
  \/ ResolveStart
  \/ \E c \in Calls : ResolveGetUser(c)
  \/ \E c \in Calls : ResolveSelect(c)
  \/ \E c \in Calls : ResolveInsert(c)

\* The clients endpoint and resolveClientByExternalId outside their own
\* specifications.
IdleClients ==
  /\ apiRuns = [r \in SyncRuns |-> NoRun]
  /\ apiN = MaxSyncRuns
  /\ calls = [c \in Calls |-> NoCall]
  /\ callN = MaxCalls
  /\ localClients = [s \in Sessions |-> <<>>]
  /\ uniqueIndex = TRUE

\* The handler and the sync of Part 3 outside their own specifications, with
\* the store as an earlier completion may have left it.
InitClientsStore ==
  /\ hVariant = "full"
  /\ callback = [n \in Completions |-> NoCallback]
  /\ oaConfigured \in BOOLEAN
  /\ hPc = "off"
  /\ hN = 0
  /\ hCtx = EmptyCtx
  /\ responses = [n \in Completions |-> NoResponse]
  /\ failures = [n \in Completions |-> {}]
  /\ persisted = [n \in Completions |-> FALSE]
  /\ sync = [n \in Completions |-> NoSync]
  /\ accounts = <<>>
  /\ settings \in {<<>>, StoredSettings}
  /\ clients = <<>>
  /\ team = <<>>

InitClientsApiVars ==
  /\ InitClientsStore
  /\ apiRuns = [r \in SyncRuns |-> NoRun]
  /\ apiN = 0
  /\ calls = [c \in Calls |-> NoCall]
  /\ callN = MaxCalls
  /\ localClients = [s \in Sessions |-> <<>>]
  /\ uniqueIndex = TRUE

InitResolveVars ==
  /\ InitClientsStore
  /\ apiRuns = [r \in SyncRuns |-> NoRun]
  /\ apiN = MaxSyncRuns
  /\ calls = [c \in Calls |-> NoCall]
  /\ callN = 0
  /\ localClients = [s \in Sessions |-> <<>>]
  /\ uniqueIndex \in BOOLEAN

(***************************************************************************)
(* Part 5: the upsert on a natural key, applied to given tables            *)
(***************************************************************************)

RowNames == {"Ann Lee", "Anna"}

\* Rows as the syncs build them, for one tenant.
UpsertRows ==
  {[external_id |-> e, name |-> n, supabase_user_id |-> 1] :
     e \in ExternalIds, n \in RowNames}

MaxBatch == 2

\* Batches of up to MaxBatch rows with different keys.
Batches ==
  {q \in UNION {[1..n -> UpsertRows] : n \in 1..MaxBatch} :
     \A i, j \in DOMAIN q : i /= j => q[i].external_id /= q[j].external_id}

\* Tables of up to MaxBatch rows with different keys.
Tables == {<<>>} \cup Batches

NotApplied == [applied |-> FALSE, a |-> <<>>, aa |-> <<>>, ab |-> <<>>, ba |-> <<>>]

InitUpsertVars ==
  /\ upIn \in [table : Tables, a : Batches, b : Batches]
  /\ upOut = NotApplied

IdleUpsert ==
  /\ upIn = [table |-> <<>>, a |-> <<>>, b |-> <<>>]
  /\ upOut = [NotApplied EXCEPT !.applied = TRUE]

\* The batches are upserted on external_id: a alone, a twice, a then b, b
\* then a.
ApplyUpserts ==
  /\ ~upOut.applied
  /\ LET key == "external_id"
         afterA == Upsert(upIn.table, upIn.a, key)
         afterB == Upsert(upIn.table, upIn.b, key)
     IN upOut' = [applied |-> TRUE, a |-> afterA,
                  aa |-> Upsert(afterA, upIn.a, key),
                  ab |-> Upsert(afterA, upIn.b, key),
                  ba |-> Upsert(afterB, upIn.a, key)]
  /\ UNCHANGED upIn
  /\ PureUnchangedExcept("upsert")
  /\ PureFrame

NextUpsert == ApplyUpserts

(***************************************************************************)
(* Part 6: what the three remote API clients make of an HTTP response:     *)
(* fetchFromSquare (src/services/squareIntegration.ts:86-109),             *)
(* squareProxyFetch (src/unnamed/part_000:14-41) and squareApiFetch        *)
(* (src/api/square/oauth/token.ts:105-128)                                 *)
(***************************************************************************)

ApiClients == {"fetchFromSquare", "squareProxyFetch", "squareApiFetch"}

HttpStatuses == {200, 201, 400, 404, 502}

\* `response.ok`
IsOk(status) == status >= 200 /\ status <= 299

\* The error arrays a body may carry (none, or one or two elements with or
\* without a field).
ErrorArrays ==
  {<<>>,
   <<[detail |-> "Invalid value", field |-> "start_at"]>>,
   <<[detail |-> "Not found", field |-> Absent]>>,
   <<[detail |-> "Card declined", field |-> Absent],
     [detail |-> "Second", field |-> "amount"]>>}

\* Response bodies: no text, text that is not JSON, the JSON text null, and
\* JSON objects.
Bodies ==
  {[kind |-> "empty", text |-> "", errors |-> <<>>],
   [kind |-> "undecodable", text |-> "<html>Bad Gateway</html>", errors |-> <<>>],
   [kind |-> "null", text |-> "null", errors |-> <<>>]}
    \cup {[kind |-> "object", text |-> "{...}", errors |-> e] : e \in ErrorArrays}

NoData == [kind |-> "none", detail |-> "", errors |-> <<>>]

\* The values a body decodes to: the object of the text, null, the empty
\* object, or the object `{ error: { detail: text } }` made up for text that
\* does not decode.
ObjectData(body) == [kind |-> "object", detail |-> "", errors |-> body.errors]

NullData == [NoData EXCEPT !.kind = "null"]

EmptyObjectData == [NoData EXCEPT !.kind = "object"]

SyntheticData(text) == [kind |-> "synthetic", detail |-> text, errors |-> <<>>]

SyntaxErrorThrown == [NoData EXCEPT !.kind = "SyntaxError"]

NotDelivered == [delivered |-> FALSE, threw |-> "", message |-> "", data |-> NoData]

Returned(data) == [delivered |-> TRUE, threw |-> "", message |-> "", data |-> data]

Thrown(error, message) ==
  [delivered |-> TRUE, threw |-> error, message |-> message, data |-> NoData]

\* How each client reads the body: `await response.json()`, or
\* `await response.text()` followed by `text ? JSON.parse(text) : {}` inside
\* or outside a try. The result is the value, or the SyntaxError thrown.
Decode(client, body) ==
  IF body.kind = "object" THEN ObjectData(body)
  ELSE IF body.kind = "null" THEN NullData
  ELSE IF body.kind = "empty"
    THEN IF client = "fetchFromSquare" THEN SyntaxErrorThrown ELSE EmptyObjectData
  ELSE IF client = "squareProxyFetch" THEN SyntheticData(body.text)
  ELSE SyntaxErrorThrown

\* `${err.detail}${fieldInfo}`
ErrorMessage(err) ==
  err.detail \o (IF Truthy(err.field) THEN " (Field: " \o err.field \o ")" ELSE "")

\* The message of the error thrown for a failure status.
FailureMessage(client, status, data) ==
  IF client = "squareApiFetch"
    THEN IF data.errors /= <<>> /\ Truthy(data.errors[1].detail)
           THEN data.errors[1].detail
           ELSE "Square API request failed"
  ELSE IF data.errors /= <<>> THEN ErrorMessage(data.errors[1])
  ELSE IF client = "fetchFromSquare" THEN "HTTP Error " \o ToString(status)
  ELSE "Square API Error via proxy: " \o ToString(status)

\* What the client's caller gets for a response.
HandleResponse(client, status, body) ==
  LET data == Decode(client, body) IN
  IF data.kind = "SyntaxError" THEN Thrown("SyntaxError", "Unexpected token in JSON")
  ELSE IF IsOk(status) THEN Returned(data)
  ELSE IF data.kind = "null" /\ client /= "squareApiFetch"
    THEN Thrown("TypeError", "Cannot read properties of null (reading 'errors')")
  ELSE Thrown("Error", FailureMessage(client, status, data))

InitFetchVars ==
  /\ rsIn \in [client : ApiClients, status : HttpStatuses, body : Bodies]
  /\ rsOut = NotDelivered

IdleFetch ==
  /\ rsIn = [client |-> "fetchFromSquare", status |-> 200,
             body |-> [kind |-> "empty", text |-> "", errors |-> <<>>]]
  /\ rsOut = [NotDelivered EXCEPT !.delivered = TRUE]

\* The response arrives and the client returns or throws.
DeliverResponse ==
  /\ ~rsOut.delivered
  /\ rsOut' = HandleResponse(rsIn.client, rsIn.status, rsIn.body)
  /\ UNCHANGED rsIn
  /\ PureUnchangedExcept("fetch")
  /\ PureFrame

NextFetch == DeliverResponse

(***************************************************************************)
(* Part 7: fetchCatalog, from the remote catalog to the canonical services *)
(***************************************************************************)

\* A number the remote left out.
NoNumber == -1

\* Longest service duration in the catalogs, in minutes.
MaxMinutes == 40

\* `service_duration`: absent, or milliseconds (whole minutes).
ServiceDurations == {NoNumber} \cup {k * 60000 : k \in 0..MaxMinutes}

\* `price_money.amount`: absent, or minor units (whole major units).
PriceAmounts == {NoNumber, 3000, 5000}

VariationNames == {"Regular", "Deluxe"}

\* The catalog holds one item; a variation of the flat listing may name an
\* item the listing does not hold.
ListedItem == [id |-> "it1", name |-> "Haircut"]

RemoteVariations ==
  [id : {"v1"}, name : VariationNames, amount : PriceAmounts,
   service_duration : ServiceDurations, available_for_booking : BOOLEAN,
   item_id : {"it1", "it9"}]

\* The two variations of the item 'Haircut', bookable or not, listed with
\* their item or not.
HaircutVariations(id, name, amount, duration) ==
  [id : {id}, name : {name}, amount : {amount}, service_duration : {duration},
   available_for_booking : BOOLEAN, item_id : {"it1", "it9"}]

\* Remote catalogs: one variation of any kind, or the two of 'Haircut'.
RemoteCatalogs ==
  {<<v>> : v \in RemoteVariations}
    \cup (HaircutVariations("v1", "Regular", 3000, 1800000)
            \X HaircutVariations("v2", "Deluxe", 5000, 2400000))

\* The resolving and strict variants search the catalog items and read the
\* variations nested in each; the proxy and direct variants list the catalog
\* objects and look each variation's item up.
SearchesItems(variant) == variant \in {"resolving", "strict"}

\* Whether the variation gives a service: `available_for_booking` in the
\* searching variants, `if (item)` in the listing ones.
GivesService(variant, v) ==
  IF SearchesItems(variant) THEN v.available_for_booking
  ELSE v.item_id = ListedItem.id

\* The name template (the listing variants trim it; the names here have no
\* outer blanks).
ServiceName(itemName, variationName) ==
  itemName \o (IF variationName /= "Regular" THEN " - " \o variationName ELSE "")

\* `amount ? amount / 100 : 0`
ServiceCost(variant, amount) ==
  IF amount = NoNumber \/ amount = 0 THEN 0 ELSE amount \div 100

\* `service_duration ? service_duration / 60000 : 60` in the searching
\* variants, `durationMs ? durationMs / 1000 / 60 : 0` in the listing ones.
ServiceDuration(variant, ms) ==
  IF ms = NoNumber \/ ms = 0
    THEN IF SearchesItems(variant) THEN 60 ELSE 0
  ELSE IF SearchesItems(variant) THEN ms \div 60000
  ELSE (ms \div 1000) \div 60

ToService(variant, v) ==
  [id |-> v.id,
   name |-> ServiceName(ListedItem.name, v.name),
   cost |-> ServiceCost(variant, v.amount),
   duration |-> ServiceDuration(variant, v.service_duration)]

FetchCatalog(variant, catalog) ==
  LET given == SelectSeq(catalog, LAMBDA v : GivesService(variant, v))
  IN [i \in 1..Len(given) |-> ToService(variant, given[i])]

NotReturned == [returned |-> FALSE, services |-> <<>>]

\* A variation nested in an item names that item.
InitCatalogVars ==
  /\ ctIn \in [variant : Variants, catalog : RemoteCatalogs]
  /\ SearchesItems(ctIn.variant) =>
       \A i \in DOMAIN ctIn.catalog : ctIn.catalog[i].item_id = ListedItem.id
  /\ ctOut = NotReturned

IdleCatalog ==
  /\ ctIn = [variant |-> "resolving", catalog |-> <<>>]
  /\ ctOut = [NotReturned EXCEPT !.returned = TRUE]

FetchCatalogReturns ==
  /\ ~ctOut.returned
  /\ ctOut' = [returned |-> TRUE, services |-> FetchCatalog(ctIn.variant, ctIn.catalog)]
  /\ UNCHANGED ctIn
  /\ PureUnchangedExcept("catalog")
  /\ PureFrame

NextCatalog == FetchCatalogReturns

(***************************************************************************)
(* Part 8: formatRFC3339WithOffset (the service's formatDate) and the      *)
(* Date parsed back from its output                                        *)
(* (src/services/squareIntegration.ts:36-84)                               *)
(***************************************************************************)

\* Instants are milliseconds since the epoch, taken every quarter of an hour
\* over MaxQuarterHours quarters, on the second and off it.
MaxQuarterHours == 96

ClockInstants ==
  {q * 900000 + e : q \in 0..MaxQuarterHours, e \in {0, 999, 61001}}

\* A Date argument: of a valid instant, invalid (NaN), or missing.
Dates ==
  {[kind |-> "valid", ms |-> t] : t \in ClockInstants}
    \cup {[kind |-> "invalid", ms |-> 0], [kind |-> "missing", ms |-> 0]}

ValidDate(ms) == [kind |-> "valid", ms |-> ms]

InvalidDate == [kind |-> "invalid", ms |-> 0]

\* Timezones, with the offset from UTC and the `shortOffset` name that
\* Intl.DateTimeFormat('en-US') reports for it (as characters); the last one
\* is no timezone, and the formatter's constructor throws a RangeError for it.
TimeZones ==
  {[id |-> "UTC", supported |-> TRUE, offsetMinutes |-> 0,
    shortOffset |-> <<"U", "T", "C">>],
   [id |-> "Africa/Abidjan", supported |-> TRUE, offsetMinutes |-> 0,
    shortOffset |-> <<"G", "M", "T">>],
   [id |-> "America/Bogota", supported |-> TRUE, offsetMinutes |-> -300,
    shortOffset |-> <<"G", "M", "T", "-", "5">>],
   [id |-> "Asia/Tokyo", supported |-> TRUE, offsetMinutes |-> 540,
    shortOffset |-> <<"G", "M", "T", "+", "9">>],
   [id |-> "Australia/Brisbane", supported |-> TRUE, offsetMinutes |-> 600,
    shortOffset |-> <<"G", "M", "T", "+", "1", "0">>],
   [id |-> "Pacific/Pago_Pago", supported |-> TRUE, offsetMinutes |-> -660,
    shortOffset |-> <<"G", "M", "T", "-", "1", "1">>],
   [id |-> "Asia/Kolkata", supported |-> TRUE, offsetMinutes |-> 330,
    shortOffset |-> <<"G", "M", "T", "+", "5", ":", "3", "0">>],
   [id |-> "America/St_Johns", supported |-> TRUE, offsetMinutes |-> -210,
    shortOffset |-> <<"G", "M", "T", "-", "3", ":", "3", "0">>],
   [id |-> "Pacific/Chatham", supported |-> TRUE, offsetMinutes |-> 765,
    shortOffset |-> <<"G", "M", "T", "+", "1", "2", ":", "4", "5">>],
   [id |-> "Mars/Olympus", supported |-> FALSE, offsetMinutes |-> 0,
    shortOffset |-> <<>>]}

\* What the language leaves to the platform: whether `hour12: false` formats
\* the hour of midnight as 24 (hour cycle h24) or 00, and whether the Date
\* constructor reads a string outside the standard format (an offset with a
\* one-digit hour) or gives an invalid Date.
Platforms == [midnightIs24 : BOOLEAN, lenientDateParse : BOOLEAN]

\* The value of `new Date()`.
Now == 123456789

Digits == <<"0", "1", "2", "3", "4", "5", "6", "7", "8", "9">>

IsDigit(c) == \E d \in 1..10 : Digits[d] = c

DigitValue(c) == (CHOOSE d \in 1..10 : Digits[d] = c) - 1

Includes(chars, c) == \E i \in 1..Len(chars) : chars[i] = c

\* `tz.replace('GMT', '')`
WithoutGMT(chars) ==
  IF Len(chars) >= 3 /\ SubSeq(chars, 1, 3) = <<"G", "M", "T">>
    THEN SubSeq(chars, 4, Len(chars))
    ELSE chars

\* `numeric.replace(/[+-]/, '')`: the first sign is taken out.
WithoutSign(chars) ==
  IF \E i \in 1..Len(chars) : chars[i] \in {"+", "-"}
    THEN LET i == CHOOSE j \in 1..Len(chars) :
                    /\ chars[j] \in {"+", "-"}
                    /\ \A k \in 1..(j - 1) : chars[k] \notin {"+", "-"}
         IN SubSeq(chars, 1, i - 1) \o SubSeq(chars, i + 1, Len(chars))
    ELSE chars

\* `padStart(2, '0')`
PadStart2(chars) ==
  IF Len(chars) = 0 THEN <<"0", "0">>
  ELSE IF Len(chars) = 1 THEN <<"0">> \o chars
  ELSE chars

\* The offset of the output, from the timezone name part (lines 63-76).
OffsetOf(tz) ==
  IF tz = <<"U", "T", "C">> \/ tz = <<"G", "M", "T">>
    THEN <<"+", "0", "0", ":", "0", "0">>
  ELSE LET numeric == WithoutGMT(tz) IN
       IF Includes(numeric, ":") THEN numeric
       ELSE LET sign == IF Len(numeric) > 0 /\ numeric[1] = "-" THEN "-" ELSE "+"
                hours == PadStart2(WithoutSign(numeric))
            IN <<sign>> \o hours \o <<":", "0", "0">>

\* A timestamp string, by its fields: `day` stands for the date YYYY-MM-DD
\* (days since the epoch), `ms` is -1 when the string has no milliseconds,
\* `offset` holds the characters after the seconds.
TimestampString(day, hour, minute, second, ms, offset) ==
  [threw |-> FALSE, day |-> day, hour |-> hour, minute |-> minute,
   second |-> second, ms |-> ms, offset |-> offset]

RangeErrorThrown ==
  [threw |-> TRUE, day |-> 0, hour |-> 0, minute |-> 0, second |-> 0, ms |-> -1,
   offset |-> <<>>]

NoString == [RangeErrorThrown EXCEPT !.threw = FALSE]

\* `date.toISOString()`: UTC with milliseconds and 'Z'; a RangeError for an
\* invalid Date.
ToISOString(date) ==
  IF date.kind /= "valid" THEN RangeErrorThrown
  ELSE LET secs == date.ms \div 1000 IN
       TimestampString(secs \div 86400, (secs % 86400) \div 3600,
                       (secs % 3600) \div 60, secs % 60, date.ms % 1000, <<"Z">>)

\* Lines 41-78: the parts of the date in the timezone, put together with
\* the offset.
FormatInZone(date, zone, platform) ==
  LET local == date.ms \div 1000 + zone.offsetMinutes * 60
      h == (local % 86400) \div 3600
  IN TimestampString(local \div 86400,
                     IF h = 0 /\ platform.midnightIs24 THEN 24 ELSE h,
                     (local % 3600) \div 60, local % 60, -1,
                     OffsetOf(zone.shortOffset))

\* Without the test of the date.
TestsNothing == FALSE

\* Whether the function tests the date before formatting it (lines 37-39).
TestsTheDate == TRUE

\* formatRFC3339WithOffset(date, timezone): the current instant for a date
\* that is missing or invalid; else the date in the timezone, or the date's
\* toISOString() when the formatter throws.
FormatRFC3339WithOffset(date, zone, platform) ==
  IF TestsTheDate /\ date.kind /= "valid" THEN ToISOString(ValidDate(Now))
  ELSE IF date.kind /= "valid" \/ ~zone.supported THEN ToISOString(date)
  ELSE FormatInZone(date, zone, platform)

\* The minutes of an offset, or Unreadable.
Unreadable == 100000

OffsetMinutes(offset, platform) ==
  LET SignOf(c) == IF c = "-" THEN -1 ELSE 1 IN
  IF offset = <<"Z">> THEN 0
  ELSE IF /\ Len(offset) = 6 /\ offset[1] \in {"+", "-"} /\ offset[4] = ":"
          /\ \A i \in {2, 3, 5, 6} : IsDigit(offset[i])
    THEN SignOf(offset[1])
           * ((DigitValue(offset[2]) * 10 + DigitValue(offset[3])) * 60
              + DigitValue(offset[5]) * 10 + DigitValue(offset[6]))
  ELSE IF /\ platform.lenientDateParse
          /\ Len(offset) = 5 /\ offset[1] \in {"+", "-"} /\ offset[3] = ":"
          /\ \A i \in {2, 4, 5} : IsDigit(offset[i])
    THEN SignOf(offset[1])
           * (DigitValue(offset[2]) * 60
              + DigitValue(offset[4]) * 10 + DigitValue(offset[5]))
  ELSE Unreadable

\* `new Date(string)`: the instant of a string in the standard format, where
\* hour 24 is the end of the day and has no minutes or seconds; an invalid
\* Date for any other string.
ParseDate(str, platform) ==
  LET off == OffsetMinutes(str.offset, platform)
      msPart == IF str.ms = -1 THEN 0 ELSE str.ms
  IN
  IF off = Unreadable THEN InvalidDate
  ELSE IF str.hour = 24 /\ (str.minute /= 0 \/ str.second /= 0 \/ msPart /= 0)
    THEN InvalidDate
  ELSE ValidDate(
         (str.day * 86400 + str.hour * 3600 + str.minute * 60 + str.second
            - off * 60) * 1000 + msPart)

NotFormatted ==
  [step |-> 0, first |-> NoString, parsed |-> InvalidDate, second |-> NoString]

InitFormatVars ==
  /\ ftIn \in [date : Dates, zone : TimeZones, platform : Platforms]
  /\ ftOut = NotFormatted

IdleFormat ==
  /\ ftIn = [date |-> InvalidDate,
             zone |-> CHOOSE z \in TimeZones : z.id = "UTC",
             platform |-> [midnightIs24 |-> FALSE, lenientDateParse |-> FALSE]]
  /\ ftOut = [NotFormatted EXCEPT !.step = 3]

\* formatDate(date, timezone) is called.
FormatDate ==
  /\ ftOut.step = 0
  /\ ftOut' = [ftOut EXCEPT
       !.step = 1,
       !.first = FormatRFC3339WithOffset(ftIn.date, ftIn.zone, ftIn.platform)]
  /\ UNCHANGED ftIn
  /\ PureUnchangedExcept("format")
  /\ PureFrame

\* The string returned is parsed with `new Date(...)`, as findAvailableSlots
\* does with its startAt.
ParseOutput ==
  /\ ftOut.step = 1
  /\ ~ftOut.first.threw
  /\ ftOut' = [ftOut EXCEPT
       !.step = 2, !.parsed = ParseDate(ftOut.first, ftIn.platform)]
  /\ UNCHANGED ftIn
  /\ PureUnchangedExcept("format")
  /\ PureFrame

\* The Date parsed is formatted again for the same timezone.
FormatAgain ==
  /\ ftOut.step = 2
  /\ ftOut' = [ftOut EXCEPT
       !.step = 3,
       !.second = FormatRFC3339WithOffset(ftOut.parsed, ftIn.zone, ftIn.platform)]
  /\ UNCHANGED ftIn
  /\ PureUnchangedExcept("format")
  /\ PureFrame

NextFormat == FormatDate \/ ParseOutput \/ FormatAgain

(***************************************************************************)
(* Part 9: the OAuth callback in the browser: the entry script on the      *)
(* callback route (src/unnamed/part_002:36-64, src/unnamed/part_003:5-26)  *)
(* and the effect of AppContent that exchanges the code                    *)
(* (src/App.tsx:135-205)                                                   *)
(***************************************************************************)

\* Most visits to the callback route, and most loads of the app, in a tab.
MaxVisits == 3

MaxLoads == 3

\* Authorization codes the provider hands out.
Codes == {"codeA", "codeB"}

\* The entry script with the test of `last_processed_square_code`
\* (part_002), and the one without it (part_003).
BootVariants == {"duplicateCheck", "noDuplicateCheck"}

EmptyStorage ==
  [square_oauth_complete |-> FALSE, square_oauth_code |-> Absent,
   last_processed_square_code |-> Absent]

\* No page of the app is loaded.
NoPage == [loaded |-> FALSE, isPostSquareAuth |-> FALSE, effectRuns |-> 0]

InitBootVars ==
  /\ bootVariant \in BootVariants
  /\ storage = EmptyStorage
  /\ page = NoPage @@ [visits |-> 0, loads |-> 0]
  /\ exchanged = <<>>

IdleBoot ==
  /\ bootVariant = "duplicateCheck"
  /\ storage = EmptyStorage
  /\ page = NoPage @@ [visits |-> MaxVisits, loads |-> MaxLoads]
  /\ exchanged = <<>>

\* What the entry script stores on the callback route, before it replaces
\* the location with '/'.
StoreOnCallback(variant, held, code) ==
  IF code = Absent THEN held
  ELSE IF variant = "duplicateCheck" /\ code = held.last_processed_square_code
    THEN held
  ELSE IF variant = "duplicateCheck"
    THEN [square_oauth_complete |-> TRUE, square_oauth_code |-> code,
          last_processed_square_code |-> code]
  ELSE [held EXCEPT !.square_oauth_complete = TRUE, !.square_oauth_code = code]

\* The tab opens the callback route with a code, or without one: the entry
\* script runs in place of the app.
VisitCallback ==
  /\ page.visits < MaxVisits
  /\ \E code \in Codes \cup {Absent} :
       storage' = StoreOnCallback(bootVariant, storage, code)
  /\ page' = [page EXCEPT !.loaded = FALSE, !.isPostSquareAuth = FALSE,
                          !.effectRuns = 0, !.visits = @ + 1]
  /\ UNCHANGED <<bootVariant, exchanged>>
  /\ PureUnchangedExcept("boot")
  /\ PureFrame

\* '/' is loaded (after the redirect, or by a reload): AppContent renders and
\* reads `square_oauth_complete`.
LoadApp ==
  /\ page.loads < MaxLoads
  /\ page' = [page EXCEPT !.loaded = TRUE,
                          !.isPostSquareAuth = storage.square_oauth_complete,
                          !.effectRuns = 0, !.loads = @ + 1]
  /\ UNCHANGED <<bootVariant, storage, exchanged>>
  /\ PureUnchangedExcept("boot")
  /\ PureFrame

\* The effect runs, once or (under StrictMode) twice for a mount, with the
\* flag its render read: it takes the code out of the storage, clears both
\* markers, and submits the code if there is one.
RunEffect ==
  /\ page.loaded
  /\ page.effectRuns < 2
  /\ page' = [page EXCEPT !.effectRuns = @ + 1]
  /\ IF page.isPostSquareAuth
       THEN /\ storage' = [storage EXCEPT !.square_oauth_code = Absent,
                                          !.square_oauth_complete = FALSE]
            /\ exchanged' = IF storage.square_oauth_code /= Absent
                              THEN Append(exchanged, storage.square_oauth_code)
                              ELSE exchanged
       ELSE UNCHANGED <<storage, exchanged>>
  /\ UNCHANGED bootVariant
  /\ PureUnchangedExcept("boot")
  /\ PureFrame

NextBoot == VisitCallback \/ LoadApp \/ RunEffect

(***************************************************************************)
(* Part 10: the effect of AuthProvider that initializes the auth state     *)
(* (src/unnamed/part_004:19-55, src/contexts/AuthContext.tsx:19-69)        *)
(***************************************************************************)

\* Most auth state events the identity provider delivers to the listeners.
MaxAuthEvents == 2

\* Most runs of the effect: under StrictMode it runs, is cleaned up, and
\* runs again.
MaxMounts == 2

\* The provider that unblocks at once and then looks the session up
\* (part_004), and the one that waits for the session lookup or an auth
\* state event (AuthContext.tsx).
AuthVariants == {"unblockFirst", "waitForSession"}

\* What a session lookup or an event carries: no session, the session of an
\* admin, the session of a user with another role.
SessionKinds == {"none", "admin", "other"}

\* `setUser(...)` for a session: only an admin becomes the user.
UserOfSession(session) == IF session = "admin" THEN "admin" ELSE "null"

\* The users login() sets.
MockUsers == {"mockAdmin", "mockStylist"}

\* A run of the effect: its flag `active` (`!cancelled`), whether its
\* listener is subscribed, and its getSession() promise.
NewEffect(variant, client) ==
  [active |-> TRUE,
   subscribed |-> (variant = "waitForSession" /\ client),
   lookup |-> IF client THEN "pending" ELSE "none"]

InitAuthVars ==
  /\ authVariant \in AuthVariants
  /\ authClient \in BOOLEAN
  /\ authState = [authInitialized |-> FALSE, user |-> "null", events |-> 0]
  /\ effects = <<>>

IdleAuth ==
  /\ authVariant = "unblockFirst"
  /\ authClient = FALSE
  /\ authState = [authInitialized |-> TRUE, user |-> "null", events |-> MaxAuthEvents]
  /\ effects = <<[active |-> FALSE, subscribed |-> FALSE, lookup |-> "none"],
                 [active |-> TRUE, subscribed |-> FALSE, lookup |-> "none"]>>

\* Whether an effect is in place (it ran and was not cleaned up).
EffectInPlace == effects /= <<>> /\ Last(effects).active

\* The effect runs after the mount: the first provider sets authInitialized
\* before anything else, the second one only when there is no client.
RunAuthEffect ==
  /\ ~EffectInPlace
  /\ Len(effects) < MaxMounts
  /\ effects' = Append(effects, NewEffect(authVariant, authClient))
  /\ authState' =
       [authState EXCEPT
          !.authInitialized = @ \/ authVariant = "unblockFirst" \/ ~authClient]
  /\ UNCHANGED <<authVariant, authClient>>
  /\ PureUnchangedExcept("auth")
  /\ PureFrame

\* The effect's cleanup, when another run follows it.
CleanupAuthEffect ==
  /\ EffectInPlace
  /\ Len(effects) < MaxMounts
  /\ effects' = [effects EXCEPT ![Len(effects)] =
                   [@ EXCEPT !.active = FALSE, !.subscribed = FALSE]]
  /\ UNCHANGED <<authVariant, authClient, authState>>
  /\ PureUnchangedExcept("auth")
  /\ PureFrame

\* What resolveUserFromSession does to the state (AuthContext.tsx:27-53).
ResolveUserFromSession(state, session) ==
  [state EXCEPT !.user = UserOfSession(session), !.authInitialized = TRUE]

\* Whether the waiting provider handles a rejection of getSession().
HandlesRejection == FALSE

\* getSession() of run i settles: it resolves with a session or with none,
\* or it rejects; a run that was cleaned up ignores the answer. The first
\* provider sets the user of an admin session and ignores a rejection; the
\* second one has no handler for a rejection.
GetSessionSettles(i) ==
  /\ effects[i].lookup = "pending"
  /\ \E outcome \in SessionKinds \cup {"rejected"} :
       /\ effects' = [effects EXCEPT ![i].lookup =
                        IF outcome = "rejected" THEN "rejected" ELSE "resolved"]
       /\ authState' =
            IF ~effects[i].active THEN authState
            ELSE IF authVariant = "unblockFirst"
              THEN IF outcome = "admin" THEN [authState EXCEPT !.user = "admin"]
                   ELSE authState
            ELSE IF outcome = "rejected"
              THEN IF HandlesRejection
                     THEN [authState EXCEPT !.authInitialized = TRUE]
                     ELSE authState
            ELSE ResolveUserFromSession(authState, outcome)
  /\ UNCHANGED <<authVariant, authClient>>
  /\ PureUnchangedExcept("auth")
  /\ PureFrame

\* The identity provider calls the listener of onAuthStateChange.
AuthStateEvent ==
  /\ EffectInPlace
  /\ Last(effects).subscribed
  /\ authState.events < MaxAuthEvents
  /\ \E session \in SessionKinds :
       authState' = [ResolveUserFromSession(authState, session)
                       EXCEPT !.events = authState.events + 1]
  /\ UNCHANGED <<authVariant, authClient, effects>>
  /\ PureUnchangedExcept("auth")
  /\ PureFrame

\* Past the gate of AppContent, the login screen calls login(role) and the
\* dashboards call logout().
Login ==
  /\ authState.authInitialized
  /\ authState.user = "null"
  /\ \E u \in MockUsers : authState' = [authState EXCEPT !.user = u]
  /\ UNCHANGED <<authVariant, authClient, effects>>
  /\ PureUnchangedExcept("auth")
  /\ PureFrame

Logout ==
  /\ authState.authInitialized
  /\ authState.user /= "null"
  /\ authState' = [authState EXCEPT !.user = "null"]
  /\ UNCHANGED <<authVariant, authClient, effects>>
  /\ PureUnchangedExcept("auth")
  /\ PureFrame

NextAuth ==
  \/ RunAuthEffect
  \/ CleanupAuthEffect
  \/ \E i \in 1..Len(effects) : GetSessionSettles(i)
  \/ AuthStateEvent
  \/ Login
  \/ Logout

(***************************************************************************)
(* Part 11: the Square proxy handler (src/api/square/proxy.ts:4-49)        *)
(***************************************************************************)

\* The methods of the requests the proxy route receives.
RequestMethods == {"POST", "GET", "OPTIONS"}

\* A JSON value of the request body, by its type and its text.
Undefined == [type |-> "undefined", text |-> <<>>]

StringValue(chars) == [type |-> "string", text |-> chars]

NumberValue(chars) == [type |-> "number", text |-> chars]

\* `!v` is false: v is a non-empty string or a number other than 0.
TruthyValue(v) ==
  \/ v.type = "string" /\ v.text /= <<>>
  \/ v.type = "number" /\ v.text /= <<"0">>

IsString(v) == v.type = "string"

V2Prefix == <<"/", "v", "2", "/">>

AccessTokens ==
  {Undefined, StringValue(<<>>), StringValue(<<"t", "o", "k">>),
   NumberValue(<<"4", "2">>), NumberValue(<<"0">>)}

Paths ==
  {Undefined, StringValue(<<>>), StringValue(V2Prefix),
   StringValue(V2Prefix \o <<"c">>), StringValue(<<"/", "v", "1", "/", "c">>),
   StringValue(<<"v", "2", "/", "c">>), StringValue(<<"/", "v", "2">>),
   NumberValue(<<"2">>)}

\* The method asked of the remote API; absent it is 'GET'.
ForwardedMethods == {Absent, "GET", "POST"}

\* What req.body is: undefined when the request has no body, null or a
\* string when that is what was sent, else the object that was sent.
BodyKinds == {"undefined", "null", "string", "object"}

\* A body that is not an object has none of the four fields.
ProxyRequests ==
  [reqMethod : RequestMethods, bodyKind : {"object"},
   accessToken : AccessTokens, path : Paths,
   method : ForwardedMethods, hasBody : BOOLEAN]
  \cup
  [reqMethod : RequestMethods, bodyKind : BodyKinds \ {"object"},
   accessToken : {Undefined}, path : {Undefined},
   method : {Absent}, hasBody : {FALSE}]

\* The answers of the remote API.
RemoteStatuses == {200, 400, 502}

RemoteBodies == {"{\"customers\":[]}", "<html>Bad Gateway</html>", ""}

NoRemote == [status |-> NoNumber, body |-> ""]

\* The handler's progress: what it has sent to the remote API, what came
\* back, and the response it gave.
NoProxyResponse ==
  [phase |-> "received", contacted |-> FALSE, remote |-> NoRemote,
   status |-> NoNumber, body |-> "", threw |-> FALSE]

Responded(out, status, body) ==
  [out EXCEPT !.phase = "responded", !.status = status, !.body = body]

InitProxyVars ==
  /\ pxIn \in ProxyRequests
  /\ pxOut = NoProxyResponse

IdleProxy ==
  /\ pxIn = [reqMethod |-> "GET", bodyKind |-> "undefined",
             accessToken |-> Undefined, path |-> Undefined,
             method |-> Absent, hasBody |-> FALSE]
  /\ pxOut = Responded(NoProxyResponse, 405, "Method Not Allowed")

\* Destructuring undefined or null throws a TypeError.
DestructuringThrows(req) == req.bodyKind \in {"undefined", "null"}

\* `method = 'GET'`.
ForwardedMethod(req) == IF req.method = Absent THEN "GET" ELSE req.method

\* fetch refuses a GET request with a body before it sends anything.
FetchRefuses(req) == ForwardedMethod(req) = "GET" /\ req.hasBody

\* The three tests of the handler, in its order; 0 when all three pass.
ValidationStatus(req) ==
  IF req.reqMethod /= "POST" THEN 405
  ELSE IF ~TruthyValue(req.accessToken) \/ ~IsString(req.accessToken) THEN 401
  ELSE IF \/ ~TruthyValue(req.path)
          \/ ~IsString(req.path)
          \/ ~StartsWith(req.path.text, V2Prefix) THEN 400
  ELSE 0

ValidationBody(status) ==
  CASE status = 405 -> "Method Not Allowed"
    [] status = 401 -> "{\"message\":\"Access token is required.\"}"
    [] status = 400 -> "{\"message\":\"A valid Square API v2 path is required.\"}"

ProxyFailureBody ==
  "{\"message\":\"An internal error occurred while proxying the request.\"}"

\* The handler up to its await of fetch: it answers 405, throws at the
\* destructuring, answers 401 or 400, or calls fetch.
HandleProxyRequest ==
  /\ pxOut.phase = "received"
  /\ pxOut' =
       IF pxIn.reqMethod /= "POST"
         THEN Responded(pxOut, 405, ValidationBody(405))
       ELSE IF DestructuringThrows(pxIn)
         THEN [Responded(pxOut, 500, "FUNCTION_INVOCATION_FAILED")
                 EXCEPT !.threw = TRUE]
       ELSE IF ValidationStatus(pxIn) /= 0
         THEN Responded(pxOut, ValidationStatus(pxIn),
                        ValidationBody(ValidationStatus(pxIn)))
       ELSE IF FetchRefuses(pxIn)
         THEN Responded(pxOut, 500, ProxyFailureBody)
       ELSE [pxOut EXCEPT !.phase = "awaiting", !.contacted = TRUE]
  /\ UNCHANGED pxIn
  /\ PureUnchangedExcept("proxy")
  /\ PureFrame

\* The remote API answers: its status and its text go to the client.
RemoteAnswers ==
  /\ pxOut.phase = "awaiting"
  /\ \E status \in RemoteStatuses, body \in RemoteBodies :
       pxOut' = [Responded(pxOut, status, body)
                   EXCEPT !.remote = [status |-> status, body |-> body]]
  /\ UNCHANGED pxIn
  /\ PureUnchangedExcept("proxy")
  /\ PureFrame

\* fetch rejects (the remote API cannot be reached).
RemoteUnreachable ==
  /\ pxOut.phase = "awaiting"
  /\ pxOut' = Responded(pxOut, 500, ProxyFailureBody)
  /\ UNCHANGED pxIn
  /\ PureUnchangedExcept("proxy")
  /\ PureFrame

NextProxy == HandleProxyRequest \/ RemoteAnswers \/ RemoteUnreachable

\* The parts of this half of the model outside their own specifications.
IdlePure ==
  /\ IdleUpsert /\ IdleFetch /\ IdleCatalog /\ IdleFormat /\ IdleBoot
  /\ IdleAuth /\ IdleProxy

\* All of them but one.
IdlePureExcept(part) ==
  /\ IF part = "upsert" THEN TRUE ELSE IdleUpsert
  /\ IF part = "fetch" THEN TRUE ELSE IdleFetch
  /\ IF part = "catalog" THEN TRUE ELSE IdleCatalog
  /\ IF part = "format" THEN TRUE ELSE IdleFormat
  /\ IF part = "boot" THEN TRUE ELSE IdleBoot
  /\ IF part = "auth" THEN TRUE ELSE IdleAuth
  /\ IF part = "proxy" THEN TRUE ELSE IdleProxy

(***************************************************************************)
(* Specifications                                                          *)
(***************************************************************************)

InitPage == InitPageVars /\ IdleBook /\ IdleOAuth /\ IdleClients /\ IdlePure

InitBook == InitBookVars /\ IdlePage /\ IdleOAuth /\ IdleClients /\ IdlePure

InitOAuth == InitOAuthVars /\ IdlePage /\ IdleBook /\ IdleClients /\ IdlePure

InitClientsApi == InitClientsApiVars /\ IdlePage /\ IdleBook /\ IdlePure

InitResolve == InitResolveVars /\ IdlePage /\ IdleBook /\ IdlePure

IdleStateful == IdlePage /\ IdleBook /\ IdleOAuth /\ IdleClients

InitUpsert == InitUpsertVars /\ IdlePureExcept("upsert") /\ IdleStateful

InitFetch == InitFetchVars /\ IdlePureExcept("fetch") /\ IdleStateful

InitCatalog == InitCatalogVars /\ IdlePureExcept("catalog") /\ IdleStateful

InitFormat == InitFormatVars /\ IdlePureExcept("format") /\ IdleStateful

InitBoot == InitBootVars /\ IdlePureExcept("boot") /\ IdleStateful

InitAuth == InitAuthVars /\ IdlePureExcept("auth") /\ IdleStateful

InitProxy == InitProxyVars /\ IdlePureExcept("proxy") /\ IdleStateful

\* Either handler may be the one deployed.
InitIdentityVars ==
  /\ hVariant \in HandlerVariants
  /\ callback = [n \in Completions |-> NoCallback]
  /\ oaConfigured \in BOOLEAN
  /\ hPc = "idle"
  /\ hN = 0
  /\ hCtx = EmptyCtx
  /\ responses = [n \in Completions |-> NoProxyResponse]
  /\ failures = [n \in Completions |-> {}]
  /\ persisted = [n \in Completions |-> FALSE]
  /\ sync = [n \in Completions |-> NoSync]
  /\ accounts = <<>>
  /\ settings = <<>>
  /\ clients = <<>>
  /\ team = <<>>

InitIdentity == InitIdentityVars /\ IdlePage /\ IdleBook /\ IdleClients /\ IdlePure

SpecPage == InitPage /\ [][NextPage]_vars

\* The event loop always resumes a pending continuation.
SpecPageFair == SpecPage /\ WF_vars(NextPage)

SpecBook == InitBook /\ [][NextBook]_vars

SpecOAuth == InitOAuth /\ [][NextOAuth]_vars

SpecIdentity == InitIdentity /\ [][NextOAuth]_vars

SpecClientsApi == InitClientsApi /\ [][NextClientsApi]_vars

SpecResolve == InitResolve /\ [][NextResolve]_vars

SpecUpsert == InitUpsert /\ [][NextUpsert]_vars

SpecFetch == InitFetch /\ [][NextFetch]_vars

SpecCatalog == InitCatalog /\ [][NextCatalog]_vars

SpecFormat == InitFormat /\ [][NextFormat]_vars

SpecBoot == InitBoot /\ [][NextBoot]_vars

\* The effect of a mounted component runs, and a promise that is pending
\* settles; nothing makes the identity provider deliver an event.
SpecProxy == InitProxy /\ [][NextProxy]_vars

SpecAuthFair ==
  /\ InitAuth /\ [][NextAuth]_vars
  /\ WF_vars(RunAuthEffect)
  /\ WF_vars(\E i \in 1..Len(effects) : GetSessionSettles(i))

(***************************************************************************)
(* Claims about pagination                                                 *)
(***************************************************************************)

\* The pages the remote serves when the cursors are followed from the first
\* request, at most n of them.
RECURSIVE PagesFrom(_, _, _)
PagesFrom(srv, key, n) ==
  IF n = 0 THEN <<>>
  ELSE LET r == srv[key] IN
         IF r.ok /\ Truthy(r.cursor)
           THEN <<r>> \o PagesFrom(srv, r.cursor, n - 1)
           ELSE <<r>>

\* The remote serves exactly n pages: every page but the last carries a
\* cursor, the last carries none (absent or empty), none is a failure.
ServesNPages(srv, n) ==
  LET p == PagesFrom(srv, Absent, n) IN
    /\ Len(p) = n
    /\ \A i \in 1..n : p[i].ok
    /\ \A i \in 1..(n - 1) : Truthy(p[i].cursor)
    /\ ~Truthy(p[n].cursor)

RECURSIVE ConcatItems(_)
ConcatItems(p) ==
  IF p = <<>> THEN <<>> ELSE PageItems(p[1]) \o ConcatItems(Tail(p))

\* What the caller of each bulk fetch receives for a list of remote items.
ExpectedResult(fn, items) ==
  IF fn = "fetchAllBookings" THEN items ELSE MapSeq(ToClient, items)

PageCounts == 1..Cardinality(RequestKeys)

CursorsEnd(srv) ==
  LET p == PagesFrom(srv, Absent, Cardinality(RequestKeys)) IN
    ~(Last(p).ok /\ Truthy(Last(p).cursor))

\* C2 (as stated): the loop is guaranteed to terminate, whatever the remote
\* does. Against a remote that answers a request the same way each time, a
\* loop that terminates never sends the same cursor twice (a second send
\* gets the same page and the same cursor again, for ever); and it stops at
\* the first absent/empty cursor and only there.
C2_AlwaysTerminates ==
  /\ \A i, j \in 1..Len(sent) : i /= j => sent[i] /= sent[j]
  /\ pgPc = "done" => ~Truthy(cursor)

\* A page just received ends the loop exactly when its cursor is absent or empty.
C2_StepOnCursor ==
  (pgPc = "await" /\ server[Last(sent)].ok) =>
    IF Truthy(server[Last(sent)].cursor) THEN pgPc' = "request" ELSE pgPc' = "done"

\* Once the loop has ended no request is made.
C2_NothingAfterEnd ==
  pgPc \in {"done", "threw"} => (sent' = sent /\ pgPc' = pgPc)

\* C2 (amended): the loop stops at the first response whose cursor is absent
\* or empty, makes no request after it, continues after every page that
\* carries a cursor, and so returns only on an absent/empty cursor; it
\* terminates whenever the remote's cursors lead to a last page or a failure.
C2_StopsOnlyOnEmptyCursor ==
  /\ [](pgPc = "done" => ~Truthy(cursor) /\ ~Truthy(server[Last(sent)].cursor))
  /\ [][C2_StepOnCursor]_vars
  /\ [][C2_NothingAfterEnd]_vars
  /\ (CursorsEnd(server) ~> pgPc \in {"done", "threw"})

\* A two-page fetch stopped on an empty (not absent) cursor.
C2_Witness ==
  /\ pgPc = "done"
  /\ Len(sent) = 2
  /\ cursor = ""

(***************************************************************************)
(* Claims about the availability search and the booking                    *)
(***************************************************************************)

\* The requests of one kind issued so far (their positions in net).
RequestsOfKind(kind) == {i \in 1..Len(net) : net[i].kind = kind}

MissingFieldErrors ==
  {"Location ID is required for booking.", "Customer ID is required for booking."}

\* The first bookable member of the remote's roster, if any.
HasBookable(members) == \E i \in 1..Len(members) : members[i].is_bookable

FirstBookable(members) ==
  members[CHOOSE i \in 1..Len(members) :
            /\ members[i].is_bookable
            /\ \A j \in 1..(i - 1) : ~members[j].is_bookable]

\* The claim's own reading of "invalid for filtering".
InvalidPerClaim(id) ==
  \/ id = Absent
  \/ id = ""
  \/ id = "admin"
  \/ (Len(id) >= 3 /\ SubSeq(id, 1, 3) = "TM-")

C3_Statement(variants) ==
  (bkVariant \in variants /\ (~Truthy(bkArgs.customerId) \/ ~Truthy(bkArgs.locationId))) =>
    /\ RequestsOfKind("fetchTeam") = {}
    /\ RequestsOfKind("POST /bookings") = {}
    /\ attempts > 0 => (bkPc = "threw" /\ bkError \in MissingFieldErrors)

\* C3: createAppointment with an empty or absent customerId (or locationId)
\* throws a missing-field error and issues neither the roster fetch nor the
\* booking request.
C3_MissingFieldBeforeNetwork == C3_Statement(Variants)

\* C3 in the three variants that validate (all but src/unnamed/part_001).
C3_InValidatingVariants == C3_Statement({"resolving", "strict", "proxy"})

C4_Statement(variants) ==
  bkVariant \in variants =>
    LET id == bkArgs.teamMemberId
        posts == RequestsOfKind("POST /bookings")
    IN IF InvalidPerClaim(id)
         THEN /\ \A i \in posts :
                   /\ i > 1 /\ net[i - 1].kind = "fetchTeam"
                   /\ HasBookable(roster)
                   /\ \A j \in 1..Len(net[i].body.appointment_segments) :
                        net[i].body.appointment_segments[j].team_member_id
                          = FirstBookable(roster).id
              /\ (bkPc = "threw" /\ bkError \notin {RemoteError} \cup MissingFieldErrors)
                   => (bkError = NoStaffError /\ ~HasBookable(roster))
         ELSE /\ RequestsOfKind("fetchTeam") = {}
              /\ \A i \in posts :
                   \A j \in 1..Len(net[i].body.appointment_segments) :
                     net[i].body.appointment_segments[j].team_member_id = id

\* C4: with a team-member id invalid for filtering, every booking request
\* follows a roster fetch and carries the first bookable member on every
\* segment, and an empty roster ends in the no-bookable-staff error with no
\* booking request; with a valid id no roster fetch is made and the id is
\* sent unchanged.
C4_TeamMemberResolution == C4_Statement(Variants)

\* C4 in the variant of src/services/squareIntegration.ts:191-239.
C4_InResolvingVariant == C4_Statement({"resolving"})

\* C5: however often createAppointment is retried for the one logical
\* booking, a remote that deduplicates by idempotency key holds at most one
\* booking for it.
C5_RetriesCreateNoDuplicate == Len(bookings) <= 1

\* C6: every booking request has one segment per requested service, in
\* request order, each with that service's id, the resolved team-member id
\* and the version the catalog holds for that service.
C6_SegmentsCarryVersion ==
  bkPc = "awaitBooking" =>
    LET segs == Last(net).body.appointment_segments
        wanted == bkArgs.services
    IN /\ Last(net).kind = "POST /bookings"
       /\ Len(segs) = Len(wanted)
       /\ \A j \in 1..Len(wanted) :
            /\ segs[j].service_variation_id = wanted[j].id
            /\ segs[j].team_member_id = bkResolved
            /\ segs[j].service_variation_version = Catalog[wanted[j].id].version

\* The proxy variant has sent a booking for two services with different
\* versions, to a team member it resolved from the roster.
C6_Witness ==
  /\ bkPc = "awaitBooking"
  /\ bkVariant = "proxy"
  /\ bkArgs.services = <<Catalog.s2, Catalog.s1>>
  /\ bkResolved /= bkArgs.teamMemberId
  /\ Last(net).body.appointment_segments[2].service_variation_version = Catalog.s1.version

C7_Statement(variants) ==
  /\ InvalidPerClaim("") /\ IsInvalidForFilter("")
  /\ InvalidPerClaim("admin") /\ IsInvalidForFilter("admin")
  /\ InvalidPerClaim("TM-anything") /\ IsInvalidForFilter("TM-anything")
  /\ ~InvalidPerClaim("real-id-123") /\ ~IsInvalidForFilter("real-id-123")
  /\ \A id \in TeamMemberIds \cup {"TM", "TM-", "tm-1", "Admin", "admin2", "xTM-1"} :
       IsInvalidForFilter(id) <=> InvalidPerClaim(id)
  /\ bkVariant \in variants =>
       \A i \in RequestsOfKind("POST /bookings/availability/search") :
         /\ net[i].body.has_team_member_id_filter <=> ~InvalidPerClaim(bkArgs.teamMemberId)
         /\ net[i].body.has_team_member_id_filter
              => net[i].body.team_member_id_filter_any = <<bkArgs.teamMemberId>>

\* C7: an id is invalid for filtering exactly when it is empty, starts with
\* "TM-" or equals "admin"; findAvailableSlots leaves the team-member filter
\* out of the search exactly when the id is invalid and otherwise restricts
\* it to that one id.
C7_TeamFilterPolicy == C7_Statement(Variants)

\* C7 in the variants that test the id (squareIntegration.ts:137-166 and
\* src/unnamed/part_000:258-270).
C7_InFilteringVariants == C7_Statement({"resolving", "proxy"})


(***************************************************************************)
(* Claims about the OAuth token handler and its background sync            *)
(***************************************************************************)

\* The steps that come before the credential row is written.
StepsBeforePersistence == {"exchange", "merchant", "identity"}

C9_SentWhileSyncRuns ==
  \A n \in Completions :
    responses[n].status = 0 /\ responses'[n].status = 200 =>
      /\ sync'[n].pc = "awaitCustomers"
      /\ responses'[n] = OkReply(hCtx)

C9_SentOnceForAll ==
  \A n \in Completions : responses[n].status /= 0 => responses'[n] = responses[n]

\* C9: the 200 response is sent when the sync has only just been started and
\* is waiting for its first remote answer; its body is made of the exchange's
\* and the merchant lookup's values only; and no later step of the sync,
\* whatever its outcome, alters a response that was sent.
C9_RespondsWithoutAwaitingSync ==
  /\ [][C9_SentWhileSyncRuns]_vars
  /\ [][C9_SentOnceForAll]_vars

\* A 200 was sent, the sync behind it later failed in its clients block and
\* is still running.
C9_Witness ==
  \E n \in Completions :
    /\ responses[n].status = 200
    /\ sync[n].custFailed
    /\ sync[n].pc = "awaitTeam"

C10_CallerUntouched ==
  (\E n \in Completions : sync[n].pc /= "notStarted" /\ sync'[n] /= sync[n]) =>
    UNCHANGED <<hPc, hCtx, responses, failures, persisted>>

C10_BothAttempted ==
  \A n \in Completions :
    /\ sync[n].pc /= "notStarted" => sync[n].custAttempted
    /\ sync[n].pc = "done" => sync[n].teamAttempted

\* C10: every sync run that ends has attempted the customers sync and the
\* team sync, whether or not the other failed, and a step of the sync never
\* changes the handler's position, its locals or any response.
C10_BothSyncsBestEffort ==
  /\ []C10_BothAttempted
  /\ [][C10_CallerUntouched]_vars

\* The only sync started has ended: its clients block failed and its team
\* block wrote rows.
C10_Witness ==
  \E n \in Completions :
    /\ sync[n].pc = "done"
    /\ sync[n].custFailed
    /\ sync[n].teamAttempted
    /\ \E i \in 1..Len(team) : team[i].merchant_id = sync[n].merchantId
    /\ \A k \in Completions \ {n} : sync[k].pc = "notStarted"


(***************************************************************************)
(* Claims about identity resolution                                        *)
(***************************************************************************)

\* The account a completion was resolved to: the user the full handler
\* passed to its sync, or the user the callback page was signed in as.
ResolvedUser(n) ==
  IF hVariant = "full"
    THEN IF responses[n].status = 200 THEN sync[n].userId ELSE NoUser
    ELSE callback[n].user

C11_OneAccountPerMerchant ==
  /\ \A i, j \in 1..Len(accounts) :
       accounts[i].merchant_id = accounts[j].merchant_id => i = j
  /\ \A i \in 1..Len(accounts) :
       /\ accounts[i].email = accounts[i].merchant_id \o "@square-oauth.blueprint"
       /\ accounts[i].password = accounts[i].merchant_id
  /\ \A n, k \in Completions :
       ResolvedUser(n) /= NoUser /\ ResolvedUser(k) /= NoUser =>
         /\ accounts[ResolvedUser(n)].merchant_id = responses[n].merchant_id
         /\ responses[n].merchant_id = responses[k].merchant_id =>
              ResolvedUser(n) = ResolvedUser(k)

C11_CreatedOnlyOnFirst ==
  Len(accounts') > Len(accounts) =>
    /\ Len(accounts') = Len(accounts) + 1
    /\ Last(accounts').merchant_id = hCtx.merchant_id
    /\ ~\E i \in 1..Len(accounts) : accounts[i].merchant_id = hCtx.merchant_id

\* C11: with either handler, there is never more than one account per
\* merchant id, its email and password are functions of the merchant id
\* alone, an account is created only by a completion for a merchant that has
\* none, and all completions that end well for one merchant are resolved to
\* that merchant's one account.
C11_SameMerchantSameAccount ==
  /\ []C11_OneAccountPerMerchant
  /\ [][C11_CreatedOnlyOnFirst]_vars

\* Two completions for one merchant ended well on the one account there is.
C11_Witness ==
  /\ ResolvedUser(1) /= NoUser
  /\ ResolvedUser(2) = ResolvedUser(1)
  /\ responses[1].merchant_id = responses[2].merchant_id
  /\ Len(accounts) = 1


\* C12: a sign-up is under way only after a sign-in that failed with 'Invalid
\* login credentials'; after a sign-in that failed for any other reason the
\* flow has ended without a sign-up.
C12_SignUpOnlyForNoAccount ==
  hPc = "signUp" => hCtx.signInError = "invalid"

\* The same, for the callback page's identity resolution only.
C12_InCallbackPage ==
  hVariant = "exchangeOnly" => C12_SignUpOnlyForNoAccount


(***************************************************************************)
(* Claims about the stored rows                                            *)
(***************************************************************************)

Max(S) == CHOOSE x \in S : \A y \in S : y <= x

\* The completions for tenant u that were answered 200.
CompletionsOf(u) ==
  {n \in Completions : responses[n].status = 200 /\ sync[n].userId = u}

C13_Statement(counted(_)) ==
  /\ \A i, j \in 1..Len(settings) :
       settings[i].supabase_user_id = settings[j].supabase_user_id => i = j
  /\ \A i \in 1..Len(settings) :
       LET done == counted(settings[i].supabase_user_id) IN
       /\ done /= {}
       /\ settings[i].square_access_token = responses[Max(done)].access_token
       /\ settings[i].square_merchant_id = responses[Max(done)].merchant_id

\* C13: there is at most one credential row per tenant, and it holds the
\* merchant id and access token of the tenant's most recent completion.
C13_RowOfLatestCompletion == C13_Statement(CompletionsOf)

\* The completions for tenant u whose credential upsert was applied.
WrittenCompletionsOf(u) == {n \in CompletionsOf(u) : persisted[n]}

\* The same, counting only the completions whose upsert was applied.
C13_RowOfLatestWrite == C13_Statement(WrittenCompletionsOf)


C14_OnePerExternalId ==
  \A i, j \in 1..Len(clients) : clients[i].external_id = clients[j].external_id => i = j

\* Sync n's clients upsert has just been applied.
C14_UpsertApplied(n) ==
  /\ sync[n].pc = "awaitClientsUpsert"
  /\ sync'[n].pc /= "awaitClientsUpsert"
  /\ ~sync'[n].custFailed

C14_LatestNameKept ==
  \A n \in Completions :
    C14_UpsertApplied(n) =>
      /\ \A k \in 1..Len(sync[n].rows) :
           \E i \in 1..Len(clients') :
             /\ ClientsHolding(clients', sync[n].rows[k].external_id) = {i}
             /\ clients'[i].name = sync[n].rows[k].name
      /\ \A i \in 1..Len(clients) :
           (\A k \in 1..Len(sync[n].rows) :
              sync[n].rows[k].external_id /= clients[i].external_id) =>
             clients'[i] = clients[i]

\* C14: the clients table never holds two rows with one external id, and
\* when a sync's upsert is applied every customer of that sync has exactly
\* one row, carrying the name that sync brought, while the rows of other
\* customers stay as they were.
C14_OneClientLatestName ==
  /\ []C14_OnePerExternalId
  /\ [][C14_LatestNameKept]_vars

\* Customer cu1 was written as 'Anna' by one sync and then as 'Ann Lee' by
\* another: one row, the later name.
C14_Witness ==
  /\ Len(clients) = 2
  /\ \E i \in 1..2 : clients[i].external_id = "cu1" /\ clients[i].name = "Ann Lee"
  /\ \E i \in 1..2 : clients[i].external_id = "cu2"


\* The ways a call ends that have nothing to do with other calls.
OwnFailures == {"notInitialized", "notAuthenticated", "insertFailed"}

\* C15: however calls of resolveClientByExternalId interleave, the table
\* holds at most one row per external id, and every call that ends (other
\* than for want of a store client, a user, or an answer to its insert)
\* returns that row.
C15_NoDuplicateCreation ==
  /\ \A e \in ExternalIds : Cardinality(ClientsHolding(clients, e)) <= 1
  /\ \A c \in Calls :
       calls[c].pc = "done" /\ calls[c].outcome \notin OwnFailures =>
         /\ calls[c].outcome = "returned"
         /\ \E i \in ClientsHolding(clients, calls[c].externalId) :
              clients[i] = calls[c].result

\* The same with a unique index on external_id, for the rows only.
C15_OneRowUnderUniqueIndex ==
  uniqueIndex =>
    \A e \in ExternalIds : Cardinality(ClientsHolding(clients, e)) <= 1

(***************************************************************************)
(* Claims about the merchant lookup                                        *)
(***************************************************************************)

\* C17: a failed merchant lookup never blocks the flow: a request whose only
\* failure is the merchant lookup is not answered with an error, and its
\* answer carries the fallback name 'Admin'.
C17_LookupFailureFallsBack ==
  \A n \in Completions :
    failures[n] = {"merchant"} =>
      /\ responses[n].status \in {0, 200}
      /\ responses[n].status = 200 => responses[n].business_name = "Admin"

\* The same, for the handler that only exchanges the code.
C17_InExchangeHandler ==
  hVariant = "exchangeOnly" => C17_LookupFailureFallsBack

\* The exchanging handler answered a request whose merchant lookup failed.
C17_ExchangeHandlerWitness ==
  /\ hVariant = "exchangeOnly"
  /\ failures[1] = {"merchant"}
  /\ responses[1].status = 200
  /\ responses[1].business_name = "Admin"

(***************************************************************************)
(* Claims about the upsert and the remote API clients                      *)
(***************************************************************************)

Rows(table) == {table[i] : i \in DOMAIN table}

KeysOf(table) == {table[i].external_id : i \in DOMAIN table}

RowsOfKey(table, k) == {r \in Rows(table) : r.external_id = k}

\* C16 as stated: applying the same upsert twice leaves the store as after
\* one application, and for two upserts on the same keys the final store is
\* the same whichever is applied first.
C16_OrderInsensitive ==
  upOut.applied =>
    /\ upOut.aa = upOut.a
    /\ KeysOf(upIn.a) = KeysOf(upIn.b) => Rows(upOut.ab) = Rows(upOut.ba)

\* C16, amended: applying the same upsert twice leaves the store as after one
\* application; for two upserts, either order leaves one row per key and the
\* same rows for the keys only one of them writes, and a key both write holds
\* the values of the upsert applied last, so the two orders give the same
\* store exactly when the upserts agree on the keys they share.
C16_IdempotentLastWriterWins ==
  upOut.applied =>
    /\ upOut.aa = upOut.a
    /\ KeysOf(upOut.ab) = KeysOf(upOut.ba)
    /\ Len(upOut.ab) = Cardinality(KeysOf(upOut.ab))
    /\ Len(upOut.ba) = Cardinality(KeysOf(upOut.ba))
    /\ \A k \in KeysOf(upOut.ab) :
         IF k \in KeysOf(upIn.a) \cap KeysOf(upIn.b)
           THEN /\ RowsOfKey(upOut.ab, k) = RowsOfKey(upIn.b, k)
                /\ RowsOfKey(upOut.ba, k) = RowsOfKey(upIn.a, k)
           ELSE RowsOfKey(upOut.ab, k) = RowsOfKey(upOut.ba, k)
    /\ Rows(upOut.ab) = Rows(upOut.ba)
         <=> \A k \in KeysOf(upIn.a) \cap KeysOf(upIn.b) :
               RowsOfKey(upIn.a, k) = RowsOfKey(upIn.b, k)

\* Two upserts on the same keys with different values for a key the table
\* already holds have been applied in both orders.
C16_Witness ==
  /\ upOut.applied
  /\ KeysOf(upIn.a) = KeysOf(upIn.b)
  /\ \E k \in KeysOf(upIn.a) \cap KeysOf(upIn.table) :
       RowsOfKey(upIn.a, k) /= RowsOfKey(upIn.b, k)
  /\ Rows(upOut.ab) /= Rows(upOut.ba)

\* The messages that carry the bare HTTP status.
BareStatusMessages(status) ==
  {"HTTP Error " \o ToString(status),
   "Square API Error via proxy: " \o ToString(status)}

\* C18: for a response with a failure status, fetchFromSquare and
\* squareProxyFetch throw and return no body; the message is the first error
\* element's detail, followed by its field when it has one, and carries the
\* bare status when the response has no error element.
C18_FailureStatusRaises ==
  rsOut.delivered /\ rsIn.client \in {"fetchFromSquare", "squareProxyFetch"}
      /\ ~IsOk(rsIn.status) =>
    /\ rsOut.threw /= ""
    /\ rsOut.data = NoData
    /\ IF rsIn.body.errors /= <<>>
         THEN LET err == rsIn.body.errors[1] IN
              IF err.field /= Absent
                THEN rsOut.message = err.detail \o " (Field: " \o err.field \o ")"
                ELSE rsOut.message = err.detail
         ELSE rsOut.message \in BareStatusMessages(rsIn.status)

\* The same, for responses whose body is a JSON object.
C18_ForObjectBodies ==
  rsIn.body.kind = "object" => C18_FailureStatusRaises

\* A failure response with an error element naming a field was turned into
\* an error.
C18_ObjectBodyWitness ==
  /\ rsOut.delivered
  /\ rsIn.client = "squareProxyFetch"
  /\ rsIn.status = 400
  /\ rsOut.message = "Invalid value (Field: start_at)"

\* C19: a body that is not JSON never makes a client throw the parse error:
\* with a success status the caller gets the object made up around the raw
\* text, with a failure status the client's own error.
C19_NoRawParseError ==
  rsOut.delivered /\ rsIn.body.kind = "undecodable" =>
    /\ rsOut.threw /= "SyntaxError"
    /\ IF IsOk(rsIn.status)
         THEN rsOut.threw = "" /\ rsOut.data = SyntheticData(rsIn.body.text)
         ELSE rsOut.threw = "Error"

\* The same, for squareProxyFetch only.
C19_InProxyClient ==
  rsIn.client = "squareProxyFetch" => C19_NoRawParseError

\* squareProxyFetch returned the made-up object for a 200 that is not JSON.
C19_ProxyWitness ==
  /\ rsIn.client = "squareProxyFetch"
  /\ rsIn.status = 200
  /\ rsOut.data = SyntheticData("<html>Bad Gateway</html>")

(***************************************************************************)
(* Claims about the availability search                                    *)
(***************************************************************************)

\* The errors findAvailableSlots raises for a start time that is no instant.
InvalidStartErrors ==
  {"Invalid start time passed to Square.", "RangeError: Invalid time value"}

\* C20: a call of findAvailableSlots with a startAt that does not parse to a
\* valid instant fails with an error about the invalid time, and no request
\* has been sent: the call never waits for, or gets, a search answer.
C20_InvalidStartFailsBeforeRequest ==
  ~bkArgs.startAtValid =>
    /\ bkPc \notin {"awaitSearch", "searched"}
    /\ bkPc = "searchThrew" => bkError \in InvalidStartErrors /\ net = <<>>
    /\ \A i \in 1..Len(net) : net[i].kind /= "POST /bookings/availability/search"

\* findAvailableSlots was called with an invalid start time and threw.
C20_Witness ==
  /\ ~bkArgs.startAtValid
  /\ bkPc = "searchThrew"
  /\ bkError \in InvalidStartErrors
  /\ net = <<>>

(***************************************************************************)
(* Claims about the catalog                                                *)
(***************************************************************************)

\* The remote variation a returned service was made from.
VariationOf(service) ==
  LET i == CHOOSE j \in DOMAIN ctIn.catalog : ctIn.catalog[j].id = service.id
  IN ctIn.catalog[i]

\* C21: every returned service whose remote duration is d milliseconds, d a
\* multiple of 60000 from 0 up, has durationMinutes d / 60000; a remote
\* duration of 0 gives 0 minutes.
C21_DurationInMinutes ==
  ctOut.returned =>
    \A i \in DOMAIN ctOut.services :
      LET d == VariationOf(ctOut.services[i]).service_duration IN
      d /= NoNumber => ctOut.services[i].duration * 60000 = d

\* The same, for remote durations above 0.
C21_ForPositiveDurations ==
  ctOut.returned =>
    \A i \in DOMAIN ctOut.services :
      LET d == VariationOf(ctOut.services[i]).service_duration IN
      d > 0 => ctOut.services[i].duration * 60000 = d

\* The same, for the variants that list the catalog objects.
C21_InListingVariants ==
  ~SearchesItems(ctIn.variant) => C21_DurationInMinutes

\* A listing variant returned a service of 0 minutes for a remote duration
\* of 0.
C21_ListingWitness ==
  /\ ctOut.returned
  /\ ~SearchesItems(ctIn.variant)
  /\ Len(ctOut.services) = 1
  /\ VariationOf(ctOut.services[1]).service_duration = 0
  /\ ctOut.services[1].duration = 0

\* C22: fetchCatalog returns one service per catalog variation, in order,
\* named after the item alone for the variation 'Regular' and
\* 'item - variation' otherwise, with the price in major units and the
\* duration in minutes.
C22_OneServicePerVariation ==
  ctOut.returned =>
    /\ Len(ctOut.services) = Len(ctIn.catalog)
    /\ \A i \in DOMAIN ctOut.services :
         LET v == VariationOf(ctOut.services[i]) IN
         /\ ctOut.services[i].name =
              (IF v.name = "Regular" THEN "Haircut" ELSE "Haircut - " \o v.name)
         /\ v.amount /= NoNumber => ctOut.services[i].cost * 100 = v.amount
         /\ v.service_duration /= NoNumber =>
              ctOut.services[i].duration * 60000 = v.service_duration

\* The same, for catalogs whose variations all give a service and have a
\* duration above 0.
C22_ForOfferedVariations ==
  (\A i \in DOMAIN ctIn.catalog :
     /\ GivesService(ctIn.variant, ctIn.catalog[i])
     /\ ctIn.catalog[i].service_duration > 0)
    => C22_OneServicePerVariation

\* The catalog of the item 'Haircut' with its two variations gave the two
\* services.
C22_HaircutWitness ==
  /\ ctOut.returned
  /\ Len(ctIn.catalog) = 2
  /\ ctOut.services =
       <<[id |-> "v1", name |-> "Haircut", cost |-> 30, duration |-> 30],
         [id |-> "v2", name |-> "Haircut - Deluxe", cost |-> 50, duration |-> 40]>>

(***************************************************************************)
(* Claims about the timestamp formatter                                    *)
(***************************************************************************)

\* A plain UTC string: milliseconds and 'Z'.
IsPlainUTC(str) == ~str.threw /\ str.ms /= -1 /\ str.offset = <<"Z">>

\* C23: formatDate never throws; for an invalid or missing date it returns a
\* plain UTC string, and when the formatter throws it returns the plain UTC
\* string of the date it was given.
C23_NeverThrows ==
  ftOut.step >= 1 =>
    /\ ~ftOut.first.threw
    /\ ftIn.date.kind /= "valid" => IsPlainUTC(ftOut.first)
    /\ ftIn.date.kind = "valid" /\ ~ftIn.zone.supported =>
         /\ IsPlainUTC(ftOut.first)
         /\ ParseDate(ftOut.first, ftIn.platform) = ftIn.date

\* An invalid date was formatted.
C23_Witness ==
  /\ ftOut.step >= 1
  /\ ftIn.date.kind = "invalid"
  /\ IsPlainUTC(ftOut.first)

\* C24: for a valid date and any timezone, the string formatted from the
\* Date parsed from the output is the output itself.
C24_IdempotentUnderReparsing ==
  ftOut.step = 3 /\ ftIn.date.kind = "valid" => ftOut.second = ftOut.first

\* Whether an offset has the form sign, two digits, colon, two digits.
IsSignedHHMM(offset) ==
  /\ Len(offset) = 6
  /\ offset[1] \in {"+", "-"}
  /\ IsDigit(offset[2]) /\ IsDigit(offset[3])
  /\ offset[4] = ":"
  /\ IsDigit(offset[5]) /\ IsDigit(offset[6])

\* The same, where the platform formats midnight as 00 and the timezone's
\* offset name has no colon or a two-digit hour.
C24_ForStandardStrings ==
  ~ftIn.platform.midnightIs24 /\ IsSignedHHMM(OffsetOf(ftIn.zone.shortOffset))
    => C24_IdempotentUnderReparsing

\* C26: for a valid date, the offset in the output has the form sign, two
\* digits, colon, two digits, whatever short offset name the platform
\* reports.
C26_OffsetIsSignedHHMM ==
  ftOut.step >= 1 /\ ftIn.date.kind = "valid" /\ ftIn.zone.supported =>
    IsSignedHHMM(ftOut.first.offset)

\* The same, for names without a colon and names with a two-digit hour.
C26_ForColonlessOrTwoDigitHour ==
  (~Includes(ftIn.zone.shortOffset, ":") \/ Len(ftIn.zone.shortOffset) = 9)
    => C26_OffsetIsSignedHHMM

\* The name 'GMT-5' was turned into '-05:00'.
C26_ColonlessWitness ==
  /\ ftOut.step >= 1
  /\ ftIn.date.kind = "valid"
  /\ ftIn.zone.shortOffset = <<"G", "M", "T", "-", "5">>
  /\ ftOut.first.offset = <<"-", "0", "5", ":", "0", "0">>

(***************************************************************************)
(* Claims about the order of the pagination requests                       *)
(***************************************************************************)

\* The first request carries no cursor; every later one carries the cursor
\* of the page that answered the request before it.
C25_CursorFaithful ==
  /\ Len(sent) >= 1 => sent[1] = Absent
  /\ \A k \in 1..(Len(sent) - 1) :
       /\ server[sent[k]].ok
       /\ Truthy(server[sent[k]].cursor)
       /\ sent[k + 1] = server[sent[k]].cursor

\* A request is issued only when no response is awaited, one at a time.
C25_OneAtATime ==
  sent' /= sent =>
    /\ pgPc = "request"
    /\ pgPc' = "await"
    /\ Len(sent') = Len(sent) + 1
    /\ SubSeq(sent', 1, Len(sent)) = sent

\* C25: the requests of a bulk fetch are sequential and cursor-faithful: the
\* first carries no cursor, request k+1 leaves only after response k has
\* arrived and carries the cursor of response k, and no request carries a
\* cursor the remote did not supply.
C25_SequentialCursorFaithful ==
  [](C25_CursorFaithful /\ (pgPc = "await" => Len(sent) >= 1))
    /\ [][C25_OneAtATime]_vars

\* A third request has left with the cursor of the second page, which is not
\* the cursor of the first.
C25_Witness ==
  /\ Len(sent) = 3
  /\ sent[2] /= sent[3]
  /\ sent[3] = server[sent[2]].cursor

(***************************************************************************)
(* Claims about the credential row at the time of the answer               *)
(***************************************************************************)

\* Request n is answered 200 in this step.
C28_Answers200(n) == responses[n].status = 0 /\ responses'[n].status = 200

\* The table holds the tenant's row with the access token of request n.
C28_RowHeld(table, n, userId) ==
  \E i \in 1..Len(table) :
    /\ table[i].supabase_user_id = userId
    /\ table[i].square_access_token = AccessToken(n)

C28_RowHeldWhenAnswered ==
  \A n \in Completions :
    C28_Answers200(n) => C28_RowHeld(settings', n, sync'[n].userId)

\* C28: the handler answers 200 and starts the sync only if the credential
\* row was persisted: when a 200 is sent, the table holds a row for the
\* tenant with the access token just obtained.
C28_OkOnlyIfPersisted == [][C28_RowHeldWhenAnswered]_vars

\* The same, for the requests whose upsert did not fail.
C28_WhenUpsertApplied ==
  [][\A n \in Completions :
       C28_Answers200(n) /\ "persist" \notin failures'[n] =>
         C28_RowHeld(settings', n, sync'[n].userId)]_vars

(***************************************************************************)
(* Claims about the callback in the browser                                *)
(***************************************************************************)

Submissions(code) == Cardinality({i \in 1..Len(exchanged) : exchanged[i] = code})

\* C27: a code delivered to the callback route is submitted to the token
\* exchange at most once in a tab, whatever the reloads, effect re-runs and
\* repeated visits with the same code.
C27_CodeSubmittedAtMostOnce ==
  \A code \in Codes : Submissions(code) <= 1

\* The same for one visit to the callback route: reloads and effect re-runs
\* do not submit the code again.
C27_OncePerVisit == Len(exchanged) <= page.visits

\* A code was submitted once, and the app was loaded again and ran its
\* effect twice without submitting anything more.
C27_ReloadWitness ==
  /\ exchanged = <<"codeA">>
  /\ page.visits = 1
  /\ page.loads = 2
  /\ page.effectRuns = 2

(***************************************************************************)
(* Claims about the auth initialization                                    *)
(***************************************************************************)

\* C29: after AuthProvider mounts, authInitialized eventually becomes true,
\* whether there is no client, or the session lookup resolves with a user,
\* resolves with none, or fails.
C29_EventuallyInitialized == <>authState.authInitialized

\* The same, when no session lookup is rejected.
C29_WhenLookupsResolve ==
  (<>authState.authInitialized)
    \/ <>(\E i \in 1..Len(effects) : effects[i].lookup = "rejected")

\* The waiting provider was initialized by a session lookup that resolved
\* with no session.
C29_ResolvedWitness ==
  /\ authVariant = "waitForSession"
  /\ authState.authInitialized
  /\ authState.events = 0
  /\ Len(effects) = 1
  /\ effects[1].lookup = "resolved"

\* The same, for the provider that unblocks before the lookup.
C29_UnblockFirst ==
  authVariant = "unblockFirst" => <>authState.authInitialized

\* The same, for the waiting provider when there is no client.
C29_WaitingWithoutClient ==
  authVariant = "waitForSession" /\ ~authClient => <>authState.authInitialized

\* Once initialized, the provider stays so.
C29_StaysInitialized ==
  [][authState.authInitialized => authState'.authInitialized]_vars

(***************************************************************************)
(* Claims about the Square proxy handler                                   *)
(***************************************************************************)

\* The three conditions under which the handler forwards.
C30_Forwardable ==
  /\ pxIn.reqMethod = "POST"
  /\ pxIn.bodyKind = "object"
  /\ IsString(pxIn.accessToken) /\ pxIn.accessToken.text /= <<>>
  /\ IsString(pxIn.path) /\ StartsWith(pxIn.path.text, V2Prefix)

\* The status the claim gives to a request that is not forwardable.
C30_RefusalStatus ==
  IF pxIn.reqMethod /= "POST" THEN 405
  ELSE IF ~(IsString(pxIn.accessToken) /\ pxIn.accessToken.text /= <<>>) THEN 401
  ELSE 400

\* A remote request is made only for a forwardable request.
C30_ContactsOnlyForwardable == pxOut.contacted => C30_Forwardable

\* A request that is not forwardable is answered 405, 401 or 400.
C30_RefusedWithItsStatus ==
  (pxOut.phase = "responded" /\ ~C30_Forwardable) =>
    (pxOut.status = C30_RefusalStatus /\ ~pxOut.contacted)

\* The remote API's answer reaches the client unchanged.
C30_AnswerUnchanged ==
  (pxOut.phase = "responded" /\ pxOut.remote /= NoRemote) =>
    (pxOut.status = pxOut.remote.status /\ pxOut.body = pxOut.remote.body)

\* C30: the Square proxy handler contacts the remote API only when the
\* request method is POST, accessToken is a non-empty string and path is a
\* string beginning with '/v2/'; in every other case it responds 405, 401 or
\* 400 respectively without making any remote request; and when it forwards,
\* the client receives the remote status code and body unchanged.
C30_ForwardsOnlyValidRequests ==
  /\ C30_ContactsOnlyForwardable
  /\ C30_RefusedWithItsStatus
  /\ C30_AnswerUnchanged

\* The same for the requests whose body is an object or a string, so that
\* the destructuring of req.body does not throw.
C30_WhenBodyDestructures ==
  ~DestructuringThrows(pxIn) => C30_ForwardsOnlyValidRequests

\* A forwarded request whose remote answer was a failure with a body that is
\* not JSON, passed on as it came.
C30_ForwardedWitness ==
  /\ pxOut.phase = "responded"
  /\ pxOut.contacted
  /\ pxOut.remote = [status |-> 502, body |-> "<html>Bad Gateway</html>"]
  /\ pxOut.status = 502

=============================================================================
